---- MODULE Spec2Model ----
(***************************************************************************)
(* The key directory of the keyserver (src/service/public-key.js) as a     *)
(* state machine: the stored key documents, the nonce generator, the      *)
(* clock and the restrictUserOrigin switch.  The OpenPGP wrapper (pgp.js) *)
(* is modelled on abstract key blocks: a block is a fingerprint and an    *)
(* ordered list of users, each with its third-party certifications.       *)
(***************************************************************************)
EXTENDS Integers, Sequences, FiniteSets, TLC

(* ------------------------------ bounds -------------------------------- *)

\* nonces are drawn from a counter; no request starts once it has passed MaxNonce
MaxNonce == 3
\* the clock stops at MaxTime (days, in units of the purge horizon)
MaxTime == 2

(* ------------------------- program constants -------------------------- *)

KEY_STATUS_VALID == 3
KEY_STATUS_REVOKED == 2
purgeTimeInDays == 1

(* ------------------------------ values -------------------------------- *)

NoNonce == 0
NoFingerprint == [hi |-> 0, lo |-> 0]
\* null / absent armored key block
NullArmored == [fingerprint |-> NoFingerprint, users |-> <<>>]
\* null / absent pendingSignatures
NullPending == [nonce |-> NoNonce, sigs |-> <<>>]
NoKeyId == 0
NoEmail == ""

\* util.normalizeEmail: lower-case the address
normalizeEmail(email) ==
  CASE email = "A@org" -> "a@org"
    [] email = "B@ext" -> "b@ext"
    [] OTHER -> email

\* util.isFromOrganisation: config.publicKey.restrictionRegEx matches
isFromOrganisation(email) == email \in {"a@org"}

\* primaryKey.getKeyId(): the low 64 bits of the fingerprint
KeyIdOf(fingerprint) == fingerprint.lo

(* --------------------------- sequence helpers ------------------------- *)

Range(s) == {s[i] : i \in 1..Len(s)}

\* index of the first element of s that is one of matching, 0 when there is none
FirstIndex(s, matching) ==
  IF \E i \in 1..Len(s) : s[i] \in matching
  THEN CHOOSE i \in 1..Len(s) :
         s[i] \in matching /\ \A j \in 1..(i - 1) : s[j] \notin matching
  ELSE 0

RECURSIVE Reverse(_)
Reverse(s) == IF s = <<>> THEN <<>> ELSE Append(Reverse(Tail(s)), Head(s))

RECURSIVE Concat(_)
Concat(ss) == IF ss = <<>> THEN <<>> ELSE Head(ss) \o Concat(Tail(ss))

(* ------------------------- uploadable key blocks ---------------------- *)

User(name, email, status, certs) ==
  [name |-> name, email |-> email, status |-> status, certs |-> certs]

F1 == [hi |-> 1, lo |-> 1]
F2 == [hi |-> 1, lo |-> 2]
\* a fingerprint whose low 64 bits collide with those of F1
F3 == [hi |-> 2, lo |-> 1]

\* key 1: two valid user IDs
Block1 == [fingerprint |-> F1,
           users |-> << User("Al", "a@org", KEY_STATUS_VALID, <<>>),
                        User("Al", "b@ext", KEY_STATUS_VALID, <<>>) >>]
\* key 1 again, with a third-party certification on a@org and b@ext revoked
Block1s == [fingerprint |-> F1,
            users |-> << User("Al", "a@org", KEY_STATUS_VALID, <<"s1">>),
                         User("Al", "b@ext", KEY_STATUS_REVOKED, <<>>) >>]
\* key 1 once more: two certifications on Al, and a second user ID on a@org
\* that carries a certification of its own
Block1t == [fingerprint |-> F1,
            users |-> << User("Al", "a@org", KEY_STATUS_VALID, <<"s1", "s2">>),
                         User("Bo", "a@org", KEY_STATUS_VALID, <<"s3">>) >>]
\* key 2: another key that claims a@org, under two user IDs
Block2 == [fingerprint |-> F2,
           users |-> << User("Al", "A@org", KEY_STATUS_VALID, <<>>),
                        User("Bo", "a@org", KEY_STATUS_VALID, <<>>) >>]
\* key 3: its key id collides with that of key 1
Block3 == [fingerprint |-> F3,
           users |-> << User("Al", "b@ext", KEY_STATUS_VALID, <<>>) >>]
\* key 4: a second key that claims a@org and b@ext (the concurrent runs)
Block4 == [fingerprint |-> F2,
           users |-> << User("Cy", "a@org", KEY_STATUS_VALID, <<>>),
                        User("Cy", "b@ext", KEY_STATUS_VALID, <<>>) >>]
\* not a key block
Garbage == NullArmored

Blocks == {Block1, Block1s, Block1t, Block2, Block3, Garbage}
EmailLists == {<<>>, <<"A@org">>, <<"b@ext">>}
KeyIds == {KeyIdOf(F1), KeyIdOf(F2)}
QueryEmails == {"a@org", "A@org", "b@ext"}

(* ------------------------ PGP wrapper (pgp.js) ------------------------ *)

\* the userid string of a user packet
UserIdOf(user) == [name |-> user.name, email |-> user.email]

\* PGP.parseUserIds: every user whose status is not invalid, mapped to the
\* local user ID format; none at all when restrictUserOrigin is on and no
\* address comes from the organisation
parseUserIds(users, restrict) ==
  LET kept == SelectSeq(users, LAMBDA u : u.status # 0)
      result == [i \in 1..Len(kept) |->
                  [name |-> kept[i].name,
                   email |-> normalizeEmail(kept[i].email),
                   verified |-> FALSE,
                   nonce |-> NoNonce,
                   publicKeyArmored |-> NullArmored,
                   status |-> {kept[i].status},
                   notify |-> FALSE]]
      fromOrg == \E i \in 1..Len(result) : isFromOrganisation(result[i].email)
  IN IF restrict /\ ~fromOrg THEN <<>> ELSE result

\* PGP.parseKey: status 500 when the text cannot be read as a key block, 400
\* when no user ID is left, else the key document to persist
parseKey(publicKeyArmored, restrict, time) ==
  LET userIds == parseUserIds(publicKeyArmored.users, restrict)
  IN IF publicKeyArmored = Garbage THEN [status |-> 500, key |-> <<>>]
     ELSE IF userIds = <<>> THEN [status |-> 400, key |-> <<>>]
     ELSE [status |-> 200,
           key |-> [keyId |-> KeyIdOf(publicKeyArmored.fingerprint),
                    fingerprint |-> publicKeyArmored.fingerprint,
                    userIds |-> userIds,
                    uploaded |-> time,
                    publicKeyArmored |-> publicKeyArmored,
                    pendingSignatures |-> NullPending]]

\* PGP.filterKeyByUserIds: keep the users whose normalized email is one of
\* the emails of userIds
filterKeyByUserIds(userIds, armored) ==
  LET emails == {userIds[i].email : i \in 1..Len(userIds)}
  IN [armored EXCEPT !.users =
        SelectSeq(@, LAMBDA u : normalizeEmail(u.email) \in emails)]

\* does the key block hold a user with this userid string
HasUser(armored, userId) ==
  \E i \in 1..Len(armored.users) : UserIdOf(armored.users[i]) = userId

\* the certifications of the user with this userid string (none without it)
CertsOf(armored, userId) ==
  IF HasUser(armored, userId)
  THEN armored.users[FirstIndex(armored.users,
                                  {u \in Range(armored.users) : UserIdOf(u) = userId})].certs
  ELSE <<>>

\* faulty filterKeyBySignatures: the new certifications are listed but stay
\* in the block
filterKeyBySignaturesListOnly(srcArmored, cmpArmored) ==
  LET same == srcArmored.fingerprint = cmpArmored.fingerprint
      isNew(u, c) == same /\ HasUser(cmpArmored, UserIdOf(u))
                     /\ c \notin Range(CertsOf(cmpArmored, UserIdOf(u)))
      fresh(u) == Reverse(SelectSeq(u.certs, LAMBDA c : isNew(u, c)))
      listed(u) == [i \in 1..Len(fresh(u)) |->
                      [user |-> UserIdOf(u), signature |-> fresh(u)[i]]]
  IN [armored |-> srcArmored,
      newSigs |-> Concat([i \in 1..Len(srcArmored.users) |->
                            listed(srcArmored.users[i])])]

\* PGP.filterKeyBySignatures: for every user of src that cmp holds too, the
\* certifications cmp lacks are taken out of src and listed, last first
filterKeyBySignatures(srcArmored, cmpArmored) ==
  LET same == srcArmored.fingerprint = cmpArmored.fingerprint
      isNew(u, c) == same /\ HasUser(cmpArmored, UserIdOf(u))
                     /\ c \notin Range(CertsOf(cmpArmored, UserIdOf(u)))
      fresh(u) == Reverse(SelectSeq(u.certs, LAMBDA c : isNew(u, c)))
      listed(u) == [i \in 1..Len(fresh(u)) |->
                      [user |-> UserIdOf(u), signature |-> fresh(u)[i]]]
  IN [armored |-> [srcArmored EXCEPT !.users =
                     [i \in 1..Len(@) |->
                        [@[i] EXCEPT !.certs =
                           SelectSeq(@, LAMBDA c : ~isNew(srcArmored.users[i], c))]]],
      newSigs |-> Concat([i \in 1..Len(srcArmored.users) |->
                            listed(srcArmored.users[i])])]

\* PGP.updateKey throws when a block cannot be read or the keys differ
updateKeyFails(srcArmored, dstArmored) ==
  \/ srcArmored = NullArmored
  \/ dstArmored = NullArmored
  \/ srcArmored.fingerprint # dstArmored.fingerprint

\* PGP.updateKey: dstKey.update(srcKey): every user of dst gains the
\* certifications of the same user of src, and the users only src holds
\* are appended
updateKey(srcArmored, dstArmored) ==
  [dstArmored EXCEPT !.users =
     [i \in 1..Len(@) |->
        [@[i] EXCEPT !.certs =
           @ \o SelectSeq(CertsOf(srcArmored, UserIdOf(dstArmored.users[i])),
                          LAMBDA c : c \notin Range(dstArmored.users[i].certs))]]
     \o SelectSeq(srcArmored.users,
                  LAMBDA u : ~HasUser(dstArmored, UserIdOf(u)))]

\* PGP.getPrimaryUser: the userid of the primary user of the block
getPrimaryUser(publicKeyArmored) == UserIdOf(publicKeyArmored.users[1])

\* PGP.removeUserId: drop the users with this normalized email
removeUserId(email, publicKeyArmored) ==
  [publicKeyArmored EXCEPT !.users =
     SelectSeq(@, LAMBDA u : normalizeEmail(u.email) # email)]

\* PGP.addSignature: attach the certification to the user it was made on
addSignature(publicKeyArmored, sig) ==
  [publicKeyArmored EXCEPT !.users =
     [i \in 1..Len(@) |->
        IF UserIdOf(@[i]) = sig.user /\ sig.signature \notin Range(@[i].certs)
        THEN [@[i] EXCEPT !.certs = Append(@, sig.signature)]
        ELSE @[i]]]

\* the md5 hex digest of a certification, as the confirmation form posts it
Md5(signature) == <<"md5", signature>>

(* ------------------------ storage (dao/mongo.js) ---------------------- *)

\* a selector is modelled by the set of stored documents it matches

\* Mongo.get: the first document the selector matches (its index, 0 for none)
mongoGet(docs, matching) == FirstIndex(docs, matching)

\* Mongo.remove: delete every document the selector matches
mongoRemove(docs, matching) == SelectSeq(docs, LAMBDA d : d \notin matching)

\* Mongo.create: insert one document
mongoCreate(docs, doc) == Append(docs, doc)

\* Mongo.update: apply the patch (a function of the matched document) to the
\* first document the selector matches
mongoUpdate(docs, matching, patch) ==
  LET i == FirstIndex(docs, matching)
  IN IF i = 0 THEN docs ELSE [docs EXCEPT ![i] = patch[@]]

\* the positional operator userIds.$: the first array element the selector names
positional(userIds, matching) == FirstIndex(userIds, matching)

(* --------------------- mail (email/email.js, templates) --------------- *)

Mail(template, keyId, userId, nonce) ==
  [template |-> template, keyId |-> keyId,
   name |-> userId.name, email |-> userId.email, nonce |-> nonce]

(* ------------------- key directory (public-key.js) -------------------- *)

SomeVerified(doc) == \E i \in 1..Len(doc.userIds) : doc.userIds[i].verified

NoDoc == [keyId |-> NoKeyId, fingerprint |-> NoFingerprint, userIds |-> <<>>,
          uploaded |-> 0, publicKeyArmored |-> NullArmored,
          pendingSignatures |-> NullPending]

\* what an operation leaves behind: the store, the nonce generator, the
\* mails it sent, its http status and what it returned
Outcome(docs, nextN, mails, status, ret) ==
  [store |-> docs, nextNonce |-> nextN, mails |-> mails, status |-> status,
   ret |-> ret]

\* return values: nothing, an email, a user ID, a key document
Ret(name, email, key) == [name |-> name, email |-> email, key |-> key]
NoRet == Ret("", NoEmail, NoDoc)

\* faulty _purgeOldUnverified: keys uploaded exactly purgeTimeInDays ago go too
_purgeOldUnverifiedAtHorizon(docs, time) ==
  mongoRemove(docs, {d \in Range(docs) :
                       ~SomeVerified(d) /\ d.uploaded <= time - purgeTimeInDays})

\* faulty _purgeOldUnverified: aged keys go whether verified or not
_purgeOldAny(docs, time) ==
  mongoRemove(docs, {d \in Range(docs) : d.uploaded < time - purgeTimeInDays})

\* PublicKey._purgeOldUnverified
_purgeOldUnverified(docs, time) ==
  mongoRemove(docs, {d \in Range(docs) :
                       ~SomeVerified(d) /\ d.uploaded < time - purgeTimeInDays})

\* faulty getVerified: the email selector without its $elemMatch on verified
getVerifiedMatchAnyUserId(d, q) ==
  \/ q.fingerprint # NoFingerprint /\ d.fingerprint = q.fingerprint /\ SomeVerified(d)
  \/ q.keyId # NoKeyId /\ d.keyId = q.keyId /\ SomeVerified(d)
  \/ q.email # NoEmail
     /\ \E i \in 1..Len(d.userIds) : d.userIds[i].email = normalizeEmail(q.email)

\* PublicKey.getVerified: the selector {$or: [by fingerprint, by key id, by email]}
getVerifiedMatch(d, q) ==
  \/ q.fingerprint # NoFingerprint /\ d.fingerprint = q.fingerprint /\ SomeVerified(d)
  \/ q.keyId # NoKeyId /\ d.keyId = q.keyId /\ SomeVerified(d)
  \/ q.email # NoEmail
     /\ \E i \in 1..Len(d.userIds) :
          d.userIds[i].email = normalizeEmail(q.email) /\ d.userIds[i].verified

getVerified(docs, q) == mongoGet(docs, {d \in Range(docs) : getVerifiedMatch(d, q)})

Query(fingerprint, keyId, email) ==
  [fingerprint |-> fingerprint, keyId |-> keyId, email |-> email]

\* faulty _includeEmail: looks for the user ID itself, not for its email
_includeEmailIdentical(users, user) ==
  \E i \in 1..Len(users) : users[i] = user

\* PublicKey._includeEmail
_includeEmail(users, user) ==
  \E i \in 1..Len(users) : users[i].email = user.email

\* PublicKey._addKeyArmored: the shadow block of each user ID, and notify
_addKeyArmored(userIds, publicKeyArmored) ==
  [i \in 1..Len(userIds) |->
     [userIds[i] EXCEPT
        !.publicKeyArmored = filterKeyByUserIds(<<userIds[i]>>, publicKeyArmored),
        !.notify = TRUE]]

\* faulty _mergeUsers: a submitted user ID is taken even when its email is verified
_mergeUsersOverVerified(existingUsers, newUsers, publicKeyArmored) ==
  LET verifiedUsers == SelectSeq(existingUsers, LAMBDA u : u.verified)
      validUsers == SelectSeq(newUsers, LAMBDA u : u.status = {KEY_STATUS_VALID})
      pendingUsers == SelectSeq(existingUsers, LAMBDA u :
                        ~u.verified /\ ~_includeEmail(validUsers, u))
  IN _addKeyArmored(validUsers, publicKeyArmored) \o pendingUsers \o verifiedUsers

\* PublicKey._mergeUsers
_mergeUsers(existingUsers, newUsers, publicKeyArmored) ==
  LET verifiedUsers == SelectSeq(existingUsers, LAMBDA u : u.verified)
      validUsers == SelectSeq(newUsers, LAMBDA u :
                      u.status = {KEY_STATUS_VALID} /\ ~_includeEmail(verifiedUsers, u))
      pendingUsers == SelectSeq(existingUsers, LAMBDA u :
                        ~u.verified /\ ~_includeEmail(validUsers, u))
  IN _addKeyArmored(validUsers, publicKeyArmored) \o pendingUsers \o verifiedUsers

\* how many of the wanted positions come before position i
Rank(wanted, i) == Cardinality({j \in wanted : j < i})

\* the loop shared by _sendVerifyEmail and _sendVerifyOrganisationEmail:
\* a fresh nonce and a verifyKey mail for the user ID at every wanted
\* position, in order
SendLoop(userIds, keyId, nextN, wanted) ==
  LET flagged == [i \in 1..Len(userIds) |->
                    IF i \in wanted
                    THEN [userIds[i] EXCEPT !.nonce = nextN + Rank(wanted, i)]
                    ELSE userIds[i]]
      sent == [k \in 1..Cardinality(wanted) |->
                 flagged[CHOOSE i \in wanted : Rank(wanted, i) = k - 1]]
  IN [userIds |-> flagged,
      mails |-> [i \in 1..Len(sent) |-> Mail("verifyKey", keyId, sent[i], sent[i].nonce)],
      nextNonce |-> nextN + Len(sent)]

\* faulty _sendVerifyEmail: one nonce drawn for the key, not one per user ID
_sendVerifyEmailOneNonce(userIds, keyId, nextN) ==
  LET flagged == [i \in 1..Len(userIds) |->
                    IF userIds[i].notify THEN [userIds[i] EXCEPT !.nonce = nextN]
                    ELSE userIds[i]]
      sent == SelectSeq(flagged, LAMBDA u : u.notify)
  IN [userIds |-> flagged,
      mails |-> [i \in 1..Len(sent) |-> Mail("verifyKey", keyId, sent[i], sent[i].nonce)],
      nextNonce |-> IF sent = <<>> THEN nextN ELSE nextN + 1]

\* PublicKey._sendVerifyEmail
_sendVerifyEmail(userIds, keyId, nextN) ==
  SendLoop(userIds, keyId, nextN, {i \in 1..Len(userIds) : userIds[i].notify})

\* PublicKey._sendVerifyOrganisationEmail
_sendVerifyOrganisationEmail(userIds, keyId, nextN) ==
  SendLoop(userIds, keyId, nextN,
           {i \in 1..Len(userIds) :
              userIds[i].notify /\ isFromOrganisation(userIds[i].email)})

\* faulty _sendNewSigsEmail: the mail goes out for a batch without a nonce only
_sendNewSigsEmailUnlessNonce(key) ==
  IF key.pendingSignatures # NullPending /\ key.pendingSignatures.sigs # <<>>
     /\ key.pendingSignatures.nonce = NoNonce
  THEN << Mail("checkNewSigs", key.keyId, getPrimaryUser(key.publicKeyArmored),
               key.pendingSignatures.nonce) >>
  ELSE <<>>

\* PublicKey._sendNewSigsEmail: one mail to the primary user when a batch is pending
_sendNewSigsEmail(key) ==
  IF key.pendingSignatures # NullPending /\ key.pendingSignatures.sigs # <<>>
  THEN << Mail("checkNewSigs", key.keyId, getPrimaryUser(key.publicKeyArmored),
               key.pendingSignatures.nonce) >>
  ELSE <<>>

Cleaned(userId) == [userId EXCEPT !.status = {}, !.notify = FALSE]

\* faulty _persistKey: the old document of the key id is not deleted
_persistKeyBesideOld(docs, key) ==
  mongoCreate(docs, [key EXCEPT !.userIds = [i \in 1..Len(@) |-> Cleaned(@[i])]])

\* PublicKey._persistKey: delete the document of this key id, insert the new one
_persistKey(docs, key) ==
  mongoCreate(mongoRemove(docs, {d \in Range(docs) : d.keyId = key.keyId}),
              [key EXCEPT !.userIds = [i \in 1..Len(@) |-> Cleaned(@[i])]])

\* faulty _persistKeyOrganisation: status and notify are deleted on every user ID
_persistKeyOrganisationCleaningAll(docs, key) ==
  mongoCreate(mongoRemove(docs, {d \in Range(docs) : d.keyId = key.keyId}),
              [key EXCEPT !.userIds = [i \in 1..Len(@) |-> Cleaned(@[i])]])

\* PublicKey._persistKeyOrganisation: as _persistKey, cleaning organisation user IDs only
_persistKeyOrganisation(docs, key) ==
  mongoCreate(mongoRemove(docs, {d \in Range(docs) : d.keyId = key.keyId}),
              [key EXCEPT !.userIds =
                 [i \in 1..Len(@) |->
                    IF isFromOrganisation(@[i].email) THEN Cleaned(@[i]) ELSE @[i]]])

\* faulty put over a verified document: without new certifications the
\* batch of the stored document is carried over
putExistingKeepingBatch(docs, nextN, key, verified) ==
  LET userIds == _mergeUsers(verified.userIds, key.userIds, key.publicKeyArmored)
      byUsers == filterKeyByUserIds(SelectSeq(userIds, LAMBDA u : u.verified),
                                    key.publicKeyArmored)
      bySigs == filterKeyBySignatures(byUsers, verified.publicKeyArmored)
      newSigs == bySigs.newSigs
      pending ==
        IF newSigs = <<>> THEN verified.pendingSignatures
        ELSE IF verified.pendingSignatures = NullPending
        THEN [sigs |-> newSigs, nonce |-> nextN]
        ELSE [verified.pendingSignatures EXCEPT !.sigs =
                @ \o SelectSeq(newSigs, LAMBDA n :
                       ~\E i \in 1..Len(verified.pendingSignatures.sigs) :
                          verified.pendingSignatures.sigs[i].signature = n.signature)]
      afterSigs == IF newSigs # <<>> /\ verified.pendingSignatures = NullPending
                   THEN nextN + 1 ELSE nextN
      sent == _sendVerifyEmail(userIds, key.keyId, afterSigs)
      merged == [key EXCEPT !.userIds = sent.userIds,
                            !.publicKeyArmored = updateKey(verified.publicKeyArmored,
                                                          bySigs.armored),
                            !.pendingSignatures = pending]
  IN IF updateKeyFails(verified.publicKeyArmored, bySigs.armored)
     THEN Outcome(docs, nextN, <<>>, 500, NoRet)
     ELSE Outcome(_persistKey(docs, merged), sent.nextNonce,
                  sent.mails \o _sendNewSigsEmail(merged), 200, NoRet)

\* put, lines 89-115: an upload over the verified document of the same key id
putExisting(docs, nextN, key, verified) ==
  LET userIds == _mergeUsers(verified.userIds, key.userIds, key.publicKeyArmored)
      byUsers == filterKeyByUserIds(SelectSeq(userIds, LAMBDA u : u.verified),
                                    key.publicKeyArmored)
      bySigs == filterKeyBySignatures(byUsers, verified.publicKeyArmored)
      newSigs == bySigs.newSigs
      pending ==
        IF newSigs = <<>> THEN NullPending
        ELSE IF verified.pendingSignatures = NullPending
        THEN [sigs |-> newSigs, nonce |-> nextN]
        ELSE [verified.pendingSignatures EXCEPT !.sigs =
                @ \o SelectSeq(newSigs, LAMBDA n :
                       ~\E i \in 1..Len(verified.pendingSignatures.sigs) :
                          verified.pendingSignatures.sigs[i].signature = n.signature)]
      afterSigs == IF newSigs # <<>> /\ verified.pendingSignatures = NullPending
                   THEN nextN + 1 ELSE nextN
      sent == _sendVerifyEmail(userIds, key.keyId, afterSigs)
      merged == [key EXCEPT !.userIds = sent.userIds,
                            !.publicKeyArmored = updateKey(verified.publicKeyArmored,
                                                          bySigs.armored),
                            !.pendingSignatures = pending]
  IN IF updateKeyFails(verified.publicKeyArmored, bySigs.armored)
     THEN Outcome(docs, nextN, <<>>, 500, NoRet)
     ELSE Outcome(_persistKey(docs, merged), sent.nextNonce,
                  sent.mails \o _sendNewSigsEmail(merged), 200, NoRet)

\* faulty put of a key without verified document: the user IDs of the stored
\* document that the upload does not name are carried over
putNewKeepingOthers(docs, nextN, restrict, key) ==
  LET valid == SelectSeq(key.userIds, LAMBDA u : u.status = {KEY_STATUS_VALID})
      armored == _addKeyArmored(valid, key.publicKeyArmored)
      sent == IF restrict
              THEN _sendVerifyOrganisationEmail(armored, key.keyId, nextN)
              ELSE _sendVerifyEmail(armored, key.keyId, nextN)
      stored == SelectSeq(docs, LAMBDA d : d.keyId = key.keyId)
      others == IF stored = <<>> THEN <<>>
                ELSE SelectSeq(stored[1].userIds, LAMBDA u : ~_includeEmail(valid, u))
      fresh == [key EXCEPT !.userIds = sent.userIds \o others,
                           !.publicKeyArmored = NullArmored]
  IN IF valid = <<>>
     THEN Outcome(docs, nextN, <<>>, 400, NoRet)
     ELSE Outcome(IF restrict THEN _persistKeyOrganisation(docs, fresh)
                              ELSE _persistKey(docs, fresh),
                  sent.nextNonce, sent.mails, 200, NoRet)

\* put, lines 117-135: no verified document of this key id
putNew(docs, nextN, restrict, key) ==
  LET valid == SelectSeq(key.userIds, LAMBDA u : u.status = {KEY_STATUS_VALID})
      armored == _addKeyArmored(valid, key.publicKeyArmored)
      sent == IF restrict
              THEN _sendVerifyOrganisationEmail(armored, key.keyId, nextN)
              ELSE _sendVerifyEmail(armored, key.keyId, nextN)
      fresh == [key EXCEPT !.userIds = sent.userIds, !.publicKeyArmored = NullArmored]
  IN IF valid = <<>>
     THEN Outcome(docs, nextN, <<>>, 400, NoRet)
     ELSE Outcome(IF restrict THEN _persistKeyOrganisation(docs, fresh)
                              ELSE _persistKey(docs, fresh),
                  sent.nextNonce, sent.mails, 200, NoRet)

\* faulty filter: every user ID of the key is taken as submitted
SubmittedUnfiltered(userIds, emails) == userIds

\* the user IDs of the key that the request submits (put, lines 80-86)
Submitted(userIds, emails) ==
  IF emails = <<>> THEN userIds
  ELSE SelectSeq(userIds, LAMBDA u : u.email \in Range(emails))

\* PublicKey.put
put(docs, nextN, time, restrict, emailsIn, publicKeyArmored) ==
  LET emails == [i \in 1..Len(emailsIn) |-> normalizeEmail(emailsIn[i])]
      purged == _purgeOldUnverified(docs, time)
      parsed == parseKey(publicKeyArmored, restrict, time)
      key == [parsed.key EXCEPT !.userIds = Submitted(@, emails)]
      v == getVerified(purged, Query(NoFingerprint, key.keyId, NoEmail))
  IN IF parsed.status # 200
     THEN Outcome(purged, nextN, <<>>, parsed.status, NoRet)
     ELSE IF emails # <<>> /\ Len(key.userIds) # Len(emails)
     THEN Outcome(purged, nextN, <<>>, 400, NoRet)
     ELSE IF v # 0 THEN putExisting(purged, nextN, key, purged[v])
     ELSE putNew(purged, nextN, restrict, key)

\* faulty selector: the nonce alone, whatever the key id
HasNonceOfAnyKey(d, keyId, nonce) ==
  \E i \in 1..Len(d.userIds) : d.userIds[i].nonce = nonce

\* the selector {keyId, 'userIds.nonce': nonce}
HasNonce(d, keyId, nonce) ==
  d.keyId = keyId /\ \E i \in 1..Len(d.userIds) : d.userIds[i].nonce = nonce

\* faulty _removeKeysWithSameEmail: only keys holding the email verified go
_removeKeysWithVerifiedEmail(docs, keyId, email) ==
  mongoRemove(docs, {d \in Range(docs) :
                       /\ d.keyId # keyId
                       /\ \E i \in 1..Len(d.userIds) :
                            d.userIds[i].email = email /\ d.userIds[i].verified})

\* PublicKey._removeKeysWithSameEmail
_removeKeysWithSameEmail(docs, keyId, email) ==
  mongoRemove(docs, {d \in Range(docs) :
                       /\ d.keyId # keyId
                       /\ \E i \in 1..Len(d.userIds) : d.userIds[i].email = email})

\* faulty patches of verify: the nonce stays, the flag is not set, the
\* shadow block stays
verifyPatchKeepingNonce(d, nonce, publicKeyArmored) ==
  LET p == positional(d.userIds, {u \in Range(d.userIds) : u.nonce = nonce})
  IN [d EXCEPT !.publicKeyArmored = publicKeyArmored,
               !.userIds[p].verified = TRUE,
               !.userIds[p].publicKeyArmored = NullArmored]

verifyPatchWithoutFlag(d, nonce, publicKeyArmored) ==
  LET p == positional(d.userIds, {u \in Range(d.userIds) : u.nonce = nonce})
  IN [d EXCEPT !.publicKeyArmored = publicKeyArmored,
               !.userIds[p].nonce = NoNonce,
               !.userIds[p].publicKeyArmored = NullArmored]

verifyPatchKeepingShadow(d, nonce, publicKeyArmored) ==
  LET p == positional(d.userIds, {u \in Range(d.userIds) : u.nonce = nonce})
  IN [d EXCEPT !.publicKeyArmored = publicKeyArmored,
               !.userIds[p].verified = TRUE,
               !.userIds[p].nonce = NoNonce]

\* faulty patch of verify: 'userIds.$' taken for every user ID of the document
verifyPatchEveryUserId(d, nonce, publicKeyArmored) ==
  [d EXCEPT !.publicKeyArmored = publicKeyArmored,
            !.userIds = [j \in 1..Len(@) |->
                           [@[j] EXCEPT !.verified = TRUE,
                                        !.nonce = NoNonce,
                                        !.publicKeyArmored = NullArmored]]]

\* the patch of verify, lines 320-325
verifyPatch(d, nonce, publicKeyArmored) ==
  LET p == positional(d.userIds, {u \in Range(d.userIds) : u.nonce = nonce})
  IN [d EXCEPT !.publicKeyArmored = publicKeyArmored,
               !.userIds[p].verified = TRUE,
               !.userIds[p].nonce = NoNonce,
               !.userIds[p].publicKeyArmored = NullArmored]

\* faulty verify: the located record is stored again, but no user ID that
\* carries notify is challenged (line 308 left out)
verifyWithoutRedispatch(docs, nextN, keyId, nonce) ==
  LET found == mongoGet(docs, {d \in Range(docs) : HasNonce(d, keyId, nonce)})
      key == docs[found]
      sent == [userIds |-> key.userIds, mails |-> <<>>, nextNonce |-> nextN]
      persisted == _persistKey(docs, [key EXCEPT !.userIds = sent.userIds])
      userIds == [i \in 1..Len(sent.userIds) |-> Cleaned(sent.userIds[i])]
      t == FirstIndex(userIds, {u \in Range(userIds) : u.nonce = nonce})
      target == userIds[t]
      others == _removeKeysWithSameEmail(persisted, keyId, target.email)
      publicKeyArmored ==
        IF key.publicKeyArmored # NullArmored
        THEN updateKey(key.publicKeyArmored, target.publicKeyArmored)
        ELSE target.publicKeyArmored
  IN IF found = 0 THEN Outcome(docs, nextN, <<>>, 404, NoRet)
     ELSE IF t = 0 THEN Outcome(persisted, sent.nextNonce, sent.mails, 500, NoRet)
     ELSE IF key.publicKeyArmored # NullArmored
             /\ updateKeyFails(key.publicKeyArmored, target.publicKeyArmored)
     THEN Outcome(others, sent.nextNonce, sent.mails, 500, NoRet)
     ELSE Outcome(mongoUpdate(others,
                              {d \in Range(others) : HasNonce(d, keyId, nonce)},
                              [d \in Range(others) |->
                                 verifyPatch(d, nonce, publicKeyArmored)]),
                  sent.nextNonce, sent.mails, 200, Ret("", target.email, NoDoc))

\* PublicKey.verify
verify(docs, nextN, keyId, nonce) ==
  LET found == mongoGet(docs, {d \in Range(docs) : HasNonce(d, keyId, nonce)})
      key == docs[found]
      sent == _sendVerifyEmail(key.userIds, keyId, nextN)
      persisted == _persistKey(docs, [key EXCEPT !.userIds = sent.userIds])
      userIds == [i \in 1..Len(sent.userIds) |-> Cleaned(sent.userIds[i])]
      t == FirstIndex(userIds, {u \in Range(userIds) : u.nonce = nonce})
      target == userIds[t]
      others == _removeKeysWithSameEmail(persisted, keyId, target.email)
      publicKeyArmored ==
        IF key.publicKeyArmored # NullArmored
        THEN updateKey(key.publicKeyArmored, target.publicKeyArmored)
        ELSE target.publicKeyArmored
  IN IF found = 0 THEN Outcome(docs, nextN, <<>>, 404, NoRet)
     ELSE IF t = 0 THEN Outcome(persisted, sent.nextNonce, sent.mails, 500, NoRet)
     ELSE IF key.publicKeyArmored # NullArmored
             /\ updateKeyFails(key.publicKeyArmored, target.publicKeyArmored)
     THEN Outcome(others, sent.nextNonce, sent.mails, 500, NoRet)
     ELSE Outcome(mongoUpdate(others,
                              {d \in Range(others) : HasNonce(d, keyId, nonce)},
                              [d \in Range(others) |->
                                 verifyPatch(d, nonce, publicKeyArmored)]),
                  sent.nextNonce, sent.mails, 200, Ret("", target.email, NoDoc))

\* the loop of verifySignatures, lines 346-357: every selected certification
\* is attached to the stored block, the last one standing
RECURSIVE attachSelected(_, _, _, _)
attachSelected(stored, publicKeyArmored, pending, sigs) ==
  IF pending = <<>> THEN publicKeyArmored
  ELSE attachSelected(stored,
         IF Md5(Head(pending).signature) \in sigs
         THEN updateKey(stored, addSignature(stored, Head(pending)))
         ELSE publicKeyArmored,
         Tail(pending), sigs)

\* PublicKey.verifySignatures
verifySignatures(docs, nextN, keyId, nonce, sigs) ==
  LET matching == {d \in Range(docs) :
                         d.keyId = keyId /\ d.pendingSignatures.nonce = nonce}
      found == mongoGet(docs, matching)
      key == docs[found]
      pending == key.pendingSignatures.sigs
      selected == \E i \in 1..Len(pending) : Md5(pending[i].signature) \in sigs
      publicKeyArmored == attachSelected(key.publicKeyArmored, key.publicKeyArmored,
                                         pending, sigs)
      updated == mongoUpdate(docs, matching,
                   [d \in Range(docs) |->
                      [d EXCEPT !.publicKeyArmored = publicKeyArmored,
                                !.pendingSignatures = NullPending]])
  IN IF found = 0 THEN Outcome(docs, nextN, <<>>, 404, NoRet)
     ELSE IF selected /\ key.publicKeyArmored = NullArmored
     THEN Outcome(docs, nextN, <<>>, 500, NoRet)
     ELSE IF publicKeyArmored.users = <<>>
     THEN Outcome(updated, nextN, <<>>, 500, NoRet)
     ELSE Outcome(updated, nextN, <<>>, 200,
                  Ret("", normalizeEmail(getPrimaryUser(publicKeyArmored).email), NoDoc))

\* faulty cleaning: the nonce of the pending batch stays in the result
PublicKeepingPendingNonce(d) ==
  [d EXCEPT !.userIds = [i \in 1..Len(@) |->
                           [name |-> @[i].name, email |-> @[i].email,
                            verified |-> @[i].verified]]]

\* the cleaned document get returns (lines 438-447)
Public(d) ==
  [d EXCEPT !.userIds = [i \in 1..Len(@) |->
                           [name |-> @[i].name, email |-> @[i].email,
                            verified |-> @[i].verified]],
            !.pendingSignatures = [@ EXCEPT !.nonce = NoNonce]]

\* PublicKey.get
get(docs, nextN, q) ==
  LET found == getVerified(docs, q)
  IN IF found = 0 THEN Outcome(docs, nextN, <<>>, 404, NoRet)
     ELSE Outcome(docs, nextN, <<>>, 200, Ret("", NoEmail, Public(docs[found])))

\* PGP.getSignatureFromBase64(signature).issuerFingerprint: the key that made
\* the certification
IssuerOf(signature) == IF signature = "s1" THEN F2 ELSE F3

\* one line of the confirmation form: the certification's digest, its issuer
\* and the primary user of the issuer's verified key (lines 478-491)
SigEntry(docs, signature) ==
  LET issuer == getVerified(docs, Query(IssuerOf(signature), NoKeyId, NoEmail))
  IN [issuerFingerprint |-> IssuerOf(signature),
      userId |-> IF issuer # 0
                 THEN getPrimaryUser(docs[issuer].publicKeyArmored)
                 ELSE [name |-> "[unknown identity]", email |-> NoEmail],
      hash |-> Md5(signature)]

\* the Map of getPendingSignatures (lines 472-496): the signed user IDs in
\* the order they first occur, each with the entries of its certifications
RECURSIVE SignedUsers(_)
SignedUsers(sigs) ==
  IF sigs = <<>> THEN <<>>
  ELSE LET front == SignedUsers(SubSeq(sigs, 1, Len(sigs) - 1))
           last == sigs[Len(sigs)].user
       IN IF last \in Range(front) THEN front ELSE Append(front, last)

SignaturesMap(docs, sigs) ==
  LET users == SignedUsers(sigs)
  IN [g \in 1..Len(users) |->
        LET own == SelectSeq(sigs, LAMBDA x : x.user = users[g])
        IN [user |-> users[g],
            sigs |-> [i \in 1..Len(own) |-> SigEntry(docs, own[i].signature)]]]

\* faulty getPendingSignatures: the nonce is not compared
getPendingSignaturesAnyNonce(docs, nextN, q, nonce) ==
  LET found == getVerified(docs, q)
      key == docs[found]
  IN IF found = 0 THEN Outcome(docs, nextN, <<>>, 404, <<>>)
     ELSE IF key.pendingSignatures = NullPending
     THEN Outcome(docs, nextN, <<>>, 404, <<>>)
     ELSE Outcome(docs, nextN, <<>>, 200,
                  SignaturesMap(docs, key.pendingSignatures.sigs))

\* PublicKey.getPendingSignatures: ret is the Map it returns
getPendingSignatures(docs, nextN, q, nonce) ==
  LET found == getVerified(docs, q)
      key == docs[found]
  IN IF found = 0 THEN Outcome(docs, nextN, <<>>, 404, <<>>)
     ELSE IF key.pendingSignatures = NullPending
     THEN Outcome(docs, nextN, <<>>, 404, <<>>)
     ELSE IF key.pendingSignatures.nonce # nonce
     THEN Outcome(docs, nextN, <<>>, 403, <<>>)
     ELSE Outcome(docs, nextN, <<>>, 200,
                  SignaturesMap(docs, key.pendingSignatures.sigs))

\* the patch {'userIds.$.nonce': nonce} under the selector {'userIds.email': email}
HasEmail(d, email) == \E i \in 1..Len(d.userIds) : d.userIds[i].email = email

flagPatch(d, email, nonce) ==
  [d EXCEPT !.userIds[positional(d.userIds,
                         {u \in Range(d.userIds) : u.email = email})].nonce = nonce]

\* _flagForRemove, lines 549-553: one update per user ID of the key
RECURSIVE flagAll(_, _, _)
flagAll(docs, userIds, nextN) ==
  IF userIds = <<>> THEN docs
  ELSE flagAll(mongoUpdate(docs,
                           {d \in Range(docs) : HasEmail(d, Head(userIds).email)},
                           [d \in Range(docs) |->
                              flagPatch(d, Head(userIds).email, nextN)]),
               Tail(userIds), nextN + 1)

\* PublicKey._flagForRemove: the store afterwards and the flagged user IDs
\* (found = 0: no document matched)
_flagForRemove(docs, nextN, keyId, emailIn) ==
  LET email == normalizeEmail(emailIn)
      byEmail == email # NoEmail
      found == IF byEmail
               THEN mongoGet(docs, {d \in Range(docs) : HasEmail(d, email)})
               ELSE mongoGet(docs, {d \in Range(docs) : d.keyId = keyId})
      key == docs[found]
      uid == key.userIds[FirstIndex(key.userIds,
                                    {u \in Range(key.userIds) : u.email = email})]
  IN IF found = 0
     THEN [found |-> 0, store |-> docs, userIds |-> <<>>, keyId |-> NoKeyId]
     ELSE IF byEmail
     THEN [found |-> found,
           store |-> mongoUpdate(docs, {d \in Range(docs) : HasEmail(d, email)},
                                 [d \in Range(docs) |-> flagPatch(d, email, nextN)]),
           userIds |-> << [uid EXCEPT !.nonce = nextN] >>,
           keyId |-> key.keyId]
     ELSE [found |-> found,
           store |-> flagAll(docs, key.userIds, nextN),
           userIds |-> [i \in 1..Len(key.userIds) |->
                          [key.userIds[i] EXCEPT !.nonce = nextN + i - 1]],
           keyId |-> key.keyId]

\* PublicKey.requestRemove
requestRemove(docs, nextN, keyId, email) ==
  LET key == _flagForRemove(docs, nextN, keyId, email)
  IN IF key.found = 0 THEN Outcome(docs, nextN, <<>>, 404, NoRet)
     ELSE Outcome(key.store, nextN + Len(key.userIds),
                  [i \in 1..Len(key.userIds) |->
                     Mail("verifyRemove", key.keyId, key.userIds[i], key.userIds[i].nonce)],
                  200, NoRet)

\* the sequence without its element at position i (Array.splice(i, 1))
Splice(s, i) == SubSeq(s, 1, i - 1) \o SubSeq(s, i + 1, Len(s))

\* faulty verifyRemove: the body is stripped of the user ID, never set to null
verifyRemoveNeverNull(docs, nextN, keyId, nonce) ==
  LET found == mongoGet(docs, {d \in Range(docs) : HasNonce(d, keyId, nonce)})
      flagged == docs[found]
      rmIdx == FirstIndex(flagged.userIds,
                          {u \in Range(flagged.userIds) : u.nonce = nonce})
      rmUserId == flagged.userIds[rmIdx]
      several == Len(SelectSeq(flagged.userIds, LAMBDA u : u.verified)) > 1
      publicKeyArmored ==
        IF ~rmUserId.verified THEN flagged.publicKeyArmored
        ELSE removeUserId(rmUserId.email, flagged.publicKeyArmored)
      kept == [flagged EXCEPT !.publicKeyArmored = publicKeyArmored,
                              !.userIds = Splice(@, rmIdx)]
  IN IF found = 0 THEN Outcome(docs, nextN, <<>>, 404, NoRet)
     ELSE IF Len(flagged.userIds) = 1
     THEN Outcome(mongoRemove(docs, {d \in Range(docs) : d.keyId = keyId}),
                  nextN, <<>>, 200,
                  Ret(flagged.userIds[1].name, flagged.userIds[1].email, NoDoc))
     ELSE IF rmUserId.verified /\ several /\ flagged.publicKeyArmored = NullArmored
     THEN Outcome(docs, nextN, <<>>, 500, NoRet)
     ELSE Outcome(mongoUpdate(docs, {d \in Range(docs) : d.keyId = keyId},
                              [d \in Range(docs) |-> kept]),
                  nextN, <<>>, 200, Ret(rmUserId.name, rmUserId.email, NoDoc))

\* PublicKey.verifyRemove
verifyRemove(docs, nextN, keyId, nonce) ==
  LET found == mongoGet(docs, {d \in Range(docs) : HasNonce(d, keyId, nonce)})
      flagged == docs[found]
      rmIdx == FirstIndex(flagged.userIds,
                          {u \in Range(flagged.userIds) : u.nonce = nonce})
      rmUserId == flagged.userIds[rmIdx]
      several == Len(SelectSeq(flagged.userIds, LAMBDA u : u.verified)) > 1
      publicKeyArmored ==
        IF ~rmUserId.verified THEN flagged.publicKeyArmored
        ELSE IF several THEN removeUserId(rmUserId.email, flagged.publicKeyArmored)
        ELSE NullArmored
      kept == [flagged EXCEPT !.publicKeyArmored = publicKeyArmored,
                              !.userIds = Splice(@, rmIdx)]
  IN IF found = 0 THEN Outcome(docs, nextN, <<>>, 404, NoRet)
     ELSE IF Len(flagged.userIds) = 1
     THEN Outcome(mongoRemove(docs, {d \in Range(docs) : d.keyId = keyId}),
                  nextN, <<>>, 200,
                  Ret(flagged.userIds[1].name, flagged.userIds[1].email, NoDoc))
     ELSE IF rmUserId.verified /\ several /\ flagged.publicKeyArmored = NullArmored
     THEN Outcome(docs, nextN, <<>>, 500, NoRet)
     ELSE Outcome(mongoUpdate(docs, {d \in Range(docs) : d.keyId = keyId},
                              [d \in Range(docs) |-> kept]),
                  nextN, <<>>, 200, Ret(rmUserId.name, rmUserId.email, NoDoc))

(* ------------------- storage and mailer failures ---------------------- *)

\* Each operation below takes the outcome o of the run without failure and
\* gives the outcome of the run in which one call throws.

\* the nonce generator after a run whose mail number failAt was not sent:
\* a verifyKey nonce is drawn right before its mail is sent
NonceAfter(o, failAt) ==
  IF o.mails[failAt].template = "verifyKey"
  THEN o.mails[failAt].nonce + 1
  ELSE o.nextNonce

\* put when the remove of _purgeOldUnverified throws (line 76): the error is
\* not caught, put rejects before it parses the key
putPurgeFails(docs, nextN) == Outcome(docs, nextN, <<>>, 500, NoRet)

\* put when sending mail number failAt throws (lines 111-113, 126, 132): the
\* purge is done, _persistKey is not reached
putMailFails(docs, time, o, failAt) ==
  Outcome(_purgeOldUnverified(docs, time), NonceAfter(o, failAt),
          SubSeq(o.mails, 1, failAt - 1), 500, NoRet)

\* faulty failure path: the old record of the key id is still there
putCreateFailsKeepingOld(docs, time, o, keyId) ==
  Outcome(_purgeOldUnverified(docs, time), o.nextNonce, o.mails, 500, NoRet)

\* put when the create of _persistKey / _persistKeyOrganisation reports an
\* insertedCount other than 1 (lines 259-262, 285-288): nothing was inserted,
\* the mails are out and the remove of the key id (lines 250, 273) is done
putCreateFails(docs, time, o, keyId) ==
  Outcome(mongoRemove(_purgeOldUnverified(docs, time),
                      {d \in Range(docs) : d.keyId = keyId}),
          o.nextNonce, o.mails, 500, NoRet)

\* verify when sending mail number failAt throws (line 308): nothing is stored
verifyMailFails(docs, o, failAt) ==
  Outcome(docs, NonceAfter(o, failAt), SubSeq(o.mails, 1, failAt - 1), 500, NoRet)

\* verify when the create of _persistKey reports an insertedCount other than
\* 1 (line 310, lines 259-262): the mails of line 308 are out, the record of
\* the key id is removed and not inserted again
verifyCreateFails(docs, o, keyId) ==
  Outcome(mongoRemove(docs, {d \in Range(docs) : d.keyId = keyId}),
          o.nextNonce, o.mails, 500, NoRet)

\* requestRemove when sending mail number failAt throws (lines 520-522):
\* _flagForRemove has stored every nonce before the first mail
requestRemoveMailFails(o, failAt) ==
  Outcome(o.store, o.nextNonce, SubSeq(o.mails, 1, failAt - 1), 500, NoRet)

(* --------------------------- the state machine ------------------------ *)

VARIABLES
  store,               \* the documents of type 'publickey', in insertion order
  nextNonce,           \* util.random(): the next nonce it returns
  now,                 \* new Date(), in days
  restrictUserOrigin,  \* config.publicKey.restrictUserOrigin
  requests             \* the requests in flight that run step by step

vars == <<store, nextNonce, now, restrictUserOrigin, requests>>

Init ==
  /\ store = <<>>
  /\ nextNonce = 1
  /\ now = 0
  /\ restrictUserOrigin \in BOOLEAN
  /\ requests = <<>>

\* a request draws no nonce beyond MaxNonce
InBounds(out) == out.nextNonce <= MaxNonce + 1

\* the nonces a client may present: every one issued so far, and one never issued
Nonces == 1..nextNonce

SigSets == SUBSET {Md5("s1"), Md5("s2")}

Queries ==
  {Query(NoFingerprint, NoKeyId, e) : e \in QueryEmails}
  \cup {Query(NoFingerprint, k, NoEmail) : k \in KeyIds}
  \cup {Query(f, NoKeyId, NoEmail) : f \in {F1, F2, F3}}

RemoveQueries ==
  {Query(NoFingerprint, NoKeyId, e) : e \in QueryEmails}
  \cup {Query(NoFingerprint, k, NoEmail) : k \in KeyIds}

Put ==
  \E block \in Blocks, emails \in EmailLists :
    \E o \in {put(store, nextNonce, now, restrictUserOrigin, emails, block)} :
      \E out \in {o, putPurgeFails(store, nextNonce)}
                   \cup {putMailFails(store, now, o, k) : k \in 1..Len(o.mails)}
                   \cup {putCreateFails(store, now, o, KeyIdOf(block.fingerprint)) :
                           ok \in {200} \cap {o.status}} :
        /\ InBounds(out)
        /\ store' = out.store
        /\ nextNonce' = out.nextNonce
        /\ UNCHANGED <<now, restrictUserOrigin, requests>>

Verify ==
  \E keyId \in KeyIds, nonce \in Nonces :
    \E o \in {verify(store, nextNonce, keyId, nonce)} :
      \E out \in {o} \cup {verifyMailFails(store, o, k) : k \in 1..Len(o.mails)}
                     \cup {verifyCreateFails(store, o, keyId) :
                             found \in {200, 500} \cap {o.status}} :
        /\ InBounds(out)
        /\ store' = out.store
        /\ nextNonce' = out.nextNonce
        /\ UNCHANGED <<now, restrictUserOrigin, requests>>

VerifySignatures ==
  \E keyId \in KeyIds, nonce \in Nonces, sigs \in SigSets :
    \E out \in {verifySignatures(store, nextNonce, keyId, nonce, sigs)} :
      /\ InBounds(out)
      /\ store' = out.store
      /\ nextNonce' = out.nextNonce
      /\ UNCHANGED <<now, restrictUserOrigin, requests>>

Get ==
  \E q \in Queries :
    \E out \in {get(store, nextNonce, q)} :
      /\ InBounds(out)
      /\ store' = out.store
      /\ nextNonce' = out.nextNonce
      /\ UNCHANGED <<now, restrictUserOrigin, requests>>

GetPendingSignatures ==
  \E q \in Queries, nonce \in Nonces :
    \E out \in {getPendingSignatures(store, nextNonce, q, nonce)} :
      /\ InBounds(out)
      /\ store' = out.store
      /\ nextNonce' = out.nextNonce
      /\ UNCHANGED <<now, restrictUserOrigin, requests>>

RequestRemove ==
  \E q \in RemoveQueries :
    \E o \in {requestRemove(store, nextNonce, q.keyId, q.email)} :
      \E out \in {o} \cup {requestRemoveMailFails(o, k) : k \in 1..Len(o.mails)} :
        /\ InBounds(out)
        /\ store' = out.store
        /\ nextNonce' = out.nextNonce
        /\ UNCHANGED <<now, restrictUserOrigin, requests>>

VerifyRemove ==
  \E keyId \in KeyIds, nonce \in Nonces :
    \E out \in {verifyRemove(store, nextNonce, keyId, nonce)} :
      /\ InBounds(out)
      /\ store' = out.store
      /\ nextNonce' = out.nextNonce
      /\ UNCHANGED <<now, restrictUserOrigin, requests>>

\* a day passes
Tick ==
  /\ now < MaxTime
  /\ now' = now + 1
  /\ UNCHANGED <<store, nextNonce, restrictUserOrigin, requests>>

Next ==
  \/ Put
  \/ Verify
  \/ VerifySignatures
  \/ Get
  \/ GetPendingSignatures
  \/ RequestRemove
  \/ VerifyRemove
  \/ Tick

Spec == Init /\ [][Next]_vars

(* ----------------- requests that run concurrently --------------------- *)

\* Two requests run step by step.  A step is what a request does from one
\* await on the store or the mailer to the next: the call itself and the
\* computation on its own copy of the key that follows it.

\* a request in flight: its arguments, where it stands, the key document it
\* holds in memory, how far the loop of _sendVerifyEmail has come, and the
\* http status once it has ended
Request(op, publicKeyArmored, keyId, nonce) ==
  [op |-> op, pc |-> "start", publicKeyArmored |-> publicKeyArmored,
   keyId |-> keyId, nonce |-> nonce, key |-> NoDoc, existing |-> FALSE,
   cursor |-> 0, status |-> 0]

Ended(r, status) == [r EXCEPT !.pc = "done", !.status = status]

\* the user IDs the loop of _sendVerifyEmail (of _sendVerifyOrganisationEmail
\* for a new key under restrictUserOrigin) still has to mail
ToMail(r, restrict) ==
  {i \in (r.cursor + 1)..Len(r.key.userIds) :
     /\ r.key.userIds[i].notify
     /\ (r.op = "put" /\ ~r.existing /\ restrict)
          => isFromOrganisation(r.key.userIds[i].email)}

\* where a request goes on once a mail is out or none is left to send
AfterMail(r, restrict) ==
  IF ToMail(r, restrict) # {} THEN [r EXCEPT !.pc = "sendVerify"]
  ELSE IF r.existing /\ _sendNewSigsEmail(r.key) # <<>>
  THEN [r EXCEPT !.pc = "sendNewSigs"]
  ELSE [r EXCEPT !.pc = "remove"]

\* put, lines 76-86: the purge, then the key is parsed and reduced to the
\* submitted user IDs (all of them: the requests here name no emails)
PutPurgeStep ==
  \E p \in DOMAIN requests :
    LET r == requests[p]
        parsed == parseKey(r.publicKeyArmored, restrictUserOrigin, now)
    IN /\ r.op = "put" /\ r.pc = "start"
       /\ store' = _purgeOldUnverified(store, now)
       /\ requests' = [requests EXCEPT ![p] =
            IF parsed.status # 200 THEN Ended(r, parsed.status)
            ELSE [r EXCEPT !.pc = "getVerified", !.key = parsed.key]]
       /\ UNCHANGED <<nextNonce, now, restrictUserOrigin>>

\* put, lines 88-108 and 117-123: getVerified, then the merge with the
\* verified document it returned, or the reduction to valid user IDs
PutReadStep ==
  \E p \in DOMAIN requests :
    LET r == requests[p]
        v == getVerified(store, Query(NoFingerprint, r.key.keyId, NoEmail))
        verified == store[v]
        userIds == _mergeUsers(verified.userIds, r.key.userIds, r.key.publicKeyArmored)
        byUsers == filterKeyByUserIds(SelectSeq(userIds, LAMBDA u : u.verified),
                                      r.key.publicKeyArmored)
        bySigs == filterKeyBySignatures(byUsers, verified.publicKeyArmored)
        fresh == bySigs.newSigs # <<>> /\ verified.pendingSignatures = NullPending
        pending ==
          IF bySigs.newSigs = <<>> THEN NullPending
          ELSE IF fresh THEN [sigs |-> bySigs.newSigs, nonce |-> nextNonce]
          ELSE [verified.pendingSignatures EXCEPT !.sigs =
                  @ \o SelectSeq(bySigs.newSigs, LAMBDA n :
                         ~\E i \in 1..Len(verified.pendingSignatures.sigs) :
                            verified.pendingSignatures.sigs[i].signature = n.signature)]
        valid == SelectSeq(r.key.userIds, LAMBDA u : u.status = {KEY_STATUS_VALID})
    IN /\ r.op = "put" /\ r.pc = "getVerified"
       /\ IF v # 0
          THEN IF updateKeyFails(verified.publicKeyArmored, bySigs.armored)
               THEN /\ requests' = [requests EXCEPT ![p] = Ended(r, 500)]
                    /\ nextNonce' = nextNonce
               ELSE /\ requests' = [requests EXCEPT ![p] =
                         AfterMail([r EXCEPT
                            !.existing = TRUE,
                            !.key = [@ EXCEPT
                               !.userIds = userIds,
                               !.publicKeyArmored =
                                  updateKey(verified.publicKeyArmored, bySigs.armored),
                               !.pendingSignatures = pending]],
                           restrictUserOrigin)]
                    /\ nextNonce' = IF fresh THEN nextNonce + 1 ELSE nextNonce
          ELSE /\ requests' = [requests EXCEPT ![p] =
                    IF valid = <<>> THEN Ended(r, 400)
                    ELSE AfterMail([r EXCEPT
                           !.key = [@ EXCEPT
                              !.userIds = _addKeyArmored(valid, r.key.publicKeyArmored),
                              !.publicKeyArmored = NullArmored]],
                          restrictUserOrigin)]
               /\ nextNonce' = nextNonce
       /\ UNCHANGED <<store, now, restrictUserOrigin>>

\* verify, lines 301-305: the document that holds the nonce
VerifyGetStep ==
  \E p \in DOMAIN requests :
    LET r == requests[p]
        found == mongoGet(store, {d \in Range(store) : HasNonce(d, r.keyId, r.nonce)})
    IN /\ r.op = "verify" /\ r.pc = "start"
       /\ requests' = [requests EXCEPT ![p] =
            IF found = 0 THEN Ended(r, 404)
            ELSE AfterMail([r EXCEPT !.key = store[found]], restrictUserOrigin)]
       /\ UNCHANGED <<store, nextNonce, now, restrictUserOrigin>>

\* one turn of the loop of _sendVerifyEmail: a nonce is drawn for the next
\* user ID to notify and its mail is sent
SendVerifyStep ==
  \E p \in DOMAIN requests :
    LET r == requests[p]
        todo == ToMail(r, restrictUserOrigin)
        i == CHOOSE j \in todo : \A k \in todo : j <= k
    IN /\ r.pc = "sendVerify"
       /\ requests' = [requests EXCEPT ![p] =
            AfterMail([r EXCEPT !.key.userIds[i].nonce = nextNonce, !.cursor = i],
                      restrictUserOrigin)]
       /\ nextNonce' = nextNonce + 1
       /\ UNCHANGED <<store, now, restrictUserOrigin>>

\* _sendNewSigsEmail: the mail for the pending batch
SendNewSigsStep ==
  \E p \in DOMAIN requests :
    /\ requests[p].pc = "sendNewSigs"
    /\ requests' = [requests EXCEPT ![p].pc = "remove"]
    /\ UNCHANGED <<store, nextNonce, now, restrictUserOrigin>>

\* _persistKey, line 250 (_persistKeyOrganisation, line 273): the remove
PersistRemoveStep ==
  \E p \in DOMAIN requests :
    LET r == requests[p]
    IN /\ r.pc = "remove"
       /\ store' = mongoRemove(store, {d \in Range(store) : d.keyId = r.key.keyId})
       /\ requests' = [requests EXCEPT ![p].pc = "create"]
       /\ UNCHANGED <<nextNonce, now, restrictUserOrigin>>

\* _persistKey, lines 252-262 (_persistKeyOrganisation, lines 275-288):
\* status and notify are deleted on the copy in memory, which is inserted
PersistCreateStep ==
  \E p \in DOMAIN requests :
    LET r == requests[p]
        organisation == r.op = "put" /\ ~r.existing /\ restrictUserOrigin
        key == [r.key EXCEPT !.userIds =
                  [i \in 1..Len(@) |->
                     IF organisation /\ ~isFromOrganisation(@[i].email)
                     THEN @[i] ELSE Cleaned(@[i])]]
    IN /\ r.pc = "create"
       /\ store' = mongoCreate(store, key)
       /\ requests' = [requests EXCEPT ![p] =
            IF r.op = "put" THEN Ended([r EXCEPT !.key = key], 200)
            ELSE [r EXCEPT !.key = key, !.pc = "removeSameEmail"]]
       /\ UNCHANGED <<nextNonce, now, restrictUserOrigin>>

\* verify, lines 312-317: _removeKeysWithSameEmail, then the body to store
\* is computed from the copy in memory
VerifyRemoveSameEmailStep ==
  \E p \in DOMAIN requests :
    LET r == requests[p]
        t == FirstIndex(r.key.userIds,
                        {u \in Range(r.key.userIds) : u.nonce = r.nonce})
        target == r.key.userIds[t]
    IN /\ r.pc = "removeSameEmail"
       /\ IF t = 0
          THEN /\ store' = store
               /\ requests' = [requests EXCEPT ![p] = Ended(r, 500)]
          ELSE /\ store' = _removeKeysWithSameEmail(store, r.keyId, target.email)
               /\ requests' = [requests EXCEPT ![p] =
                    IF r.key.publicKeyArmored # NullArmored
                       /\ updateKeyFails(r.key.publicKeyArmored, target.publicKeyArmored)
                    THEN Ended(r, 500)
                    ELSE [r EXCEPT !.pc = "update"]]
       /\ UNCHANGED <<nextNonce, now, restrictUserOrigin>>

\* verify, lines 320-325: the update that flags the user ID as verified
VerifyUpdateStep ==
  \E p \in DOMAIN requests :
    LET r == requests[p]
        target == r.key.userIds[FirstIndex(r.key.userIds,
                    {u \in Range(r.key.userIds) : u.nonce = r.nonce})]
        publicKeyArmored ==
          IF r.key.publicKeyArmored # NullArmored
          THEN updateKey(r.key.publicKeyArmored, target.publicKeyArmored)
          ELSE target.publicKeyArmored
    IN /\ r.pc = "update"
       /\ store' = mongoUpdate(store,
                     {d \in Range(store) : HasNonce(d, r.keyId, r.nonce)},
                     [d \in Range(store) |-> verifyPatch(d, r.nonce, publicKeyArmored)])
       /\ requests' = [requests EXCEPT ![p] = Ended(r, 200)]
       /\ UNCHANGED <<nextNonce, now, restrictUserOrigin>>

\* the directories the concurrent requests start on, each one left by
\* requests that ran one at a time: key 1 uploaded, its first user ID
\* verified, key 4 uploaded beside it
Key1Uploaded(restrict) == put(<<>>, 1, 0, restrict, <<>>, Block1)
Key1Verified(restrict) ==
  verify(Key1Uploaded(restrict).store, Key1Uploaded(restrict).nextNonce, KeyIdOf(F1), 1)
Key4Uploaded(restrict) ==
  put(Key1Verified(restrict).store, Key1Verified(restrict).nextNonce, 0, restrict,
      <<>>, Block4)

\* the nonce that the directory holds for the user ID of the key with this email
NonceFor(docs, keyId, email) ==
  LET d == docs[FirstIndex(docs, {x \in Range(docs) : x.keyId = keyId})]
  IN d.userIds[FirstIndex(d.userIds, {u \in Range(d.userIds) : u.email = email})].nonce

\* two uploads of key 1; a verify of a@org on key 4 beside an upload of key 1
\* that holds a@org verified; two verifies for the two user IDs of key 1
Races(restrict) ==
  {[start |-> o,
    requests |-> << Request("put", b1, NoKeyId, NoNonce),
                    Request("put", b2, NoKeyId, NoNonce) >>] :
     o \in {Outcome(<<>>, 1, <<>>, 200, NoRet), Key1Uploaded(restrict),
            Key1Verified(restrict)},
     b1 \in {Block1}, b2 \in {Block1, Block1s}}
  \cup
  {[start |-> Key4Uploaded(restrict),
    requests |-> << Request("verify", NullArmored, KeyIdOf(F2),
                            NonceFor(Key4Uploaded(restrict).store, KeyIdOf(F2), "a@org")),
                    Request("put", b, NoKeyId, NoNonce) >>] :
     b \in {Block1, Block1s}}
  \cup
  (IF restrict THEN {}
   ELSE {[start |-> Key1Uploaded(restrict),
          requests |-> << Request("verify", NullArmored, KeyIdOf(F1), 1),
                          Request("verify", NullArmored, KeyIdOf(F1), 2) >>]})

RaceInit ==
  /\ now = 0
  /\ restrictUserOrigin \in BOOLEAN
  /\ \E race \in Races(restrictUserOrigin) :
       /\ store = race.start.store
       /\ nextNonce = race.start.nextNonce
       /\ requests = race.requests

RaceNext ==
  \/ PutPurgeStep
  \/ PutReadStep
  \/ VerifyGetStep
  \/ SendVerifyStep
  \/ SendNewSigsStep
  \/ PersistRemoveStep
  \/ PersistCreateStep
  \/ VerifyRemoveSameEmailStep
  \/ VerifyUpdateStep

SpecRace == RaceInit /\ [][RaceNext]_vars

(* ------------------------------- claims ------------------------------- *)

\* every user ID of docs, as <<document index, user ID index>>
Pairs(docs) ==
  UNION {{<<i, j>> : j \in 1..Len(docs[i].userIds)} : i \in 1..Len(docs)}
UidIn(docs, p) == docs[p[1]].userIds[p[2]]
Stored == Pairs(store)
Uid(p) == UidIn(store, p)

\* C1: for every email address at most one stored user ID, in the whole
\* directory, has verified = true
C1_OneVerifiedPerEmail ==
  \A p \in Stored, q \in Stored :
    Uid(p).verified /\ Uid(q).verified /\ Uid(p).email = Uid(q).email => p = q

\* the user IDs a key block holds, with the email normalized
BodyUserIds(armored) ==
  {[name |-> armored.users[i].name, email |-> normalizeEmail(armored.users[i].email)]
     : i \in 1..Len(armored.users)}

\* the user IDs of a document with verified = true
VerifiedUserIds(d) ==
  {[name |-> d.userIds[i].name, email |-> d.userIds[i].email]
     : i \in {j \in 1..Len(d.userIds) : d.userIds[j].verified}}

\* C2: a stored publicKeyArmored that is not null holds exactly the user
\* IDs of its document that have verified = true
C2_ArmoredIsVerifiedSubset ==
  \A i \in 1..Len(store) :
    store[i].publicKeyArmored # NullArmored =>
      BodyUserIds(store[i].publicKeyArmored) = VerifiedUserIds(store[i])

ByEmail(email) == Query(NoFingerprint, NoKeyId, email)
ByKeyId(keyId) == Query(NoFingerprint, keyId, NoEmail)

\* C3: get returns a document only if one of its user IDs is verified; a
\* lookup by email returns it only if a user ID with that email, in lower
\* case, is itself verified; and no put makes an email retrievable that was
\* not (after a fresh put, get(email) still fails with 404)
C3_GetOnlyVerified ==
  /\ \A q \in Queries :
       LET r == get(store, nextNonce, q)
       IN r.status = 200 =>
            \E j \in 1..Len(r.ret.key.userIds) : r.ret.key.userIds[j].verified
  /\ \A e \in QueryEmails :
       LET r == get(store, nextNonce, ByEmail(e))
       IN /\ r.status \in {200, 404}
          /\ r.status = 200 =>
               \E j \in 1..Len(r.ret.key.userIds) :
                 /\ r.ret.key.userIds[j].email = normalizeEmail(e)
                 /\ r.ret.key.userIds[j].verified
  /\ \A block \in Blocks, emails \in EmailLists, e \in QueryEmails :
       LET o == put(store, nextNonce, now, restrictUserOrigin, emails, block)
       IN get(store, nextNonce, ByEmail(e)).status = 404
            => get(o.store, o.nextNonce, ByEmail(e)).status = 404

\* C3 witness: one email is retrievable while another is stored, unverified,
\* and is not
C3_Witness ==
  \E e1 \in QueryEmails, e2 \in QueryEmails :
    /\ get(store, nextNonce, ByEmail(e1)).status = 200
    /\ get(store, nextNonce, ByEmail(e2)).status = 404
    /\ \E i \in 1..Len(store) : HasEmail(store[i], normalizeEmail(e2))

\* the documents of docs with this key id
WithKeyId(docs, keyId) == SelectSeq(docs, LAMBDA d : d.keyId = keyId)

\* C4: put on a directory without a document of the key id, then verify
\* with a mailed nonce, then get by the mailed address: verify returns the
\* address, get returns the document of the key with that user ID
\* verified, stored without nonce, and held by publicKeyArmored
C4_PutVerifyGet ==
  \A block \in Blocks, emails \in EmailLists :
    LET keyId == KeyIdOf(block.fingerprint)
        o1 == put(store, nextNonce, now, restrictUserOrigin, emails, block)
    IN (o1.status = 200 /\ WithKeyId(store, keyId) = <<>>) =>
         \A m \in Range(o1.mails) :
           LET o2 == verify(o1.store, o1.nextNonce, keyId, m.nonce)
               o3 == get(o2.store, o2.nextNonce, ByEmail(m.email))
               u == [name |-> m.name, email |-> m.email]
           IN /\ m.template = "verifyKey"
              /\ o2.status = 200
              /\ o2.ret.email = m.email
              /\ o3.status = 200
              /\ o3.ret.key.keyId = keyId
              /\ o3.ret.key.fingerprint = block.fingerprint
              /\ \E j \in 1..Len(o3.ret.key.userIds) :
                   o3.ret.key.userIds[j] = [name |-> u.name, email |-> u.email,
                                            verified |-> TRUE]
              /\ \A d \in Range(WithKeyId(o2.store, keyId)) :
                   \A j \in 1..Len(d.userIds) :
                     (d.userIds[j].name = u.name /\ d.userIds[j].email = u.email)
                       => d.userIds[j].verified /\ d.userIds[j].nonce = NoNonce
              /\ u \in BodyUserIds(o3.ret.key.publicKeyArmored)

\* C4 witness: the directory after such a put and verify: a single document,
\* one user ID verified and in the block, the other still holding its nonce
C4_Witness ==
  /\ Len(store) = 1
  /\ Len(store[1].userIds) = 2
  /\ store[1].userIds[1].verified /\ store[1].userIds[1].nonce = NoNonce
  /\ ~store[1].userIds[2].verified /\ store[1].userIds[2].nonce # NoNonce
  /\ get(store, nextNonce, ByEmail(store[1].userIds[1].email)).status = 200
  /\ [name |-> store[1].userIds[1].name, email |-> store[1].userIds[1].email]
       \in BodyUserIds(store[1].publicKeyArmored)

\* C5, as claimed: every verified user ID has nonce = null and no shadow block
C5_VerifiedHasNoNonce ==
  \A p \in Stored :
    Uid(p).verified =>
      Uid(p).nonce = NoNonce /\ Uid(p).publicKeyArmored = NullArmored

\* the step is a requestRemove that found its document
IsRequestRemove ==
  \E q \in RemoveQueries :
    LET o == requestRemove(store, nextNonce, q.keyId, q.email)
    IN o.status = 200 /\ store' = o.store /\ nextNonce' = o.nextNonce

\* every verified user ID of docs is without a shadow block
NoShadowOnVerified(docs) ==
  \A p \in Pairs(docs) :
    UidIn(docs, p).verified => UidIn(docs, p).publicKeyArmored = NullArmored

\* every verified user ID of the next state that holds a nonce was stored
\* just so, on the same key, in this state
VerifiedNoncesAreOld ==
  \A p \in Pairs(store') :
    (UidIn(store', p).verified /\ UidIn(store', p).nonce # NoNonce) =>
      \E q \in Stored :
        store[q[1]].keyId = store'[p[1]].keyId /\ Uid(q) = UidIn(store', p)

\* C5, amended: a verified user ID never has a shadow block, and it holds a
\* nonce only if requestRemove stored it there: after every other step a
\* verified user ID with a nonce was verified, with that nonce, before
C5_VerifiedNonceOnlyByRemove ==
  [][store' # store =>
       /\ NoShadowOnVerified(store')
       /\ IsRequestRemove \/ VerifiedNoncesAreOld]_vars

\* C5 witness: a verified user ID that holds a removal nonce
C5_Witness ==
  \E p \in Stored : Uid(p).verified /\ Uid(p).nonce # NoNonce

\* verify(k, n) is rejected after the step if the step was its success, or
\* if n was issued and rejected before the step
VerifySpent(k, n) ==
  LET v == verify(store, nextNonce, k, n)
  IN ((v.status = 200 /\ store' = v.store /\ nextNonce' = v.nextNonce)
        \/ (n < nextNonce /\ v.status = 404))
       => verify(store', nextNonce', k, n).status = 404

\* the same for verifySignatures, whatever certifications are selected
SignaturesSpent(k, n, sigs) ==
  LET c == verifySignatures(store, nextNonce, k, n, sigs)
  IN ((c.status = 200 /\ store' = c.store /\ nextNonce' = c.nextNonce)
        \/ (n < nextNonce /\ c.status = 404))
       => \A again \in SigSets :
            verifySignatures(store', nextNonce', k, n, again).status = 404

\* C6: once verify(keyId, n) has succeeded, verify(keyId, n) fails with 404,
\* at once and ever after (an issued nonce that is rejected stays rejected);
\* the same for verifySignatures
C6_NonceSingleUse ==
  [][store' # store =>
       \A k \in KeyIds, n \in Nonces :
         /\ VerifySpent(k, n)
         /\ \A sigs \in SigSets : SignaturesSpent(k, n, sigs)]_vars

\* C6 witness: a directory where a verify and a verifySignatures succeed,
\* each rejected with 404 when repeated
C6_Witness ==
  /\ \E k \in KeyIds, n \in Nonces :
       LET v == verify(store, nextNonce, k, n)
       IN v.status = 200 /\ verify(v.store, v.nextNonce, k, n).status = 404
  /\ \E k \in KeyIds, n \in Nonces :
       LET c == verifySignatures(store, nextNonce, k, n, {Md5("s1")})
       IN c.status = 200
          /\ verifySignatures(c.store, c.nextNonce, k, n, {Md5("s1")}).status = 404

\* C7: after verify(K, n) has succeeded for a user ID with email e, no
\* document of another key id holds a user ID with email e, and get(e)
\* returns the document of K
C7_VerifyRemovesOtherKeys ==
  \A k \in KeyIds, n \in Nonces :
    LET v == verify(store, nextNonce, k, n)
        g == get(v.store, v.nextNonce, ByEmail(v.ret.email))
    IN v.status = 200 =>
         /\ \A i \in 1..Len(v.store) :
              v.store[i].keyId # k => ~HasEmail(v.store[i], v.ret.email)
         /\ g.status = 200
         /\ g.ret.key.keyId = k

\* C7 witness: a verify that succeeds for an email that the document of
\* another key holds verified
C7_Witness ==
  \E k \in KeyIds, n \in Nonces :
    LET v == verify(store, nextNonce, k, n)
    IN /\ v.status = 200
       /\ \E p \in Stored :
            /\ store[p[1]].keyId # k
            /\ Uid(p).email = v.ret.email
            /\ Uid(p).verified

\* C8: at most one stored document per key id and at most one per fingerprint
C8_OneDocumentPerKey ==
  \A i \in 1..Len(store), j \in 1..Len(store) :
    (store[i].keyId = store[j].keyId \/ store[i].fingerprint = store[j].fingerprint)
      => i = j

\* C8 witness: a put is about to replace the stored document of its key id,
\* while a document of another key is stored too
C8_Witness ==
  /\ Len(store) = 2
  /\ \E block \in Blocks :
       LET o == put(store, nextNonce, now, restrictUserOrigin, <<>>, block)
       IN /\ o.status = 200
          /\ WithKeyId(store, KeyIdOf(block.fingerprint)) # <<>>
          /\ WithKeyId(o.store, KeyIdOf(block.fingerprint))
               # WithKeyId(store, KeyIdOf(block.fingerprint))

\* the user IDs a request submits that have status valid, read off the block
SubmittedValid(block, emails) ==
  LET wanted == {normalizeEmail(emails[i]) : i \in 1..Len(emails)}
      kept == SelectSeq(block.users, LAMBDA u :
                /\ u.status = KEY_STATUS_VALID
                /\ emails = <<>> \/ normalizeEmail(u.email) \in wanted)
  IN [i \in 1..Len(kept) |->
        [name |-> kept[i].name, email |-> normalizeEmail(kept[i].email)]]

\* the stored document of the key id that has a verified user ID (0: none)
VerifiedOf(keyId) ==
  FirstIndex(store, {d \in Range(store) : d.keyId = keyId /\ SomeVerified(d)})

\* C9: with restrictUserOrigin off, a put that succeeds for a key id without
\* a verified document stores one document of the key id, publicKeyArmored
\* null, its userIds exactly the submitted valid user IDs, each unverified,
\* with a fresh nonce of its own, a shadow block that holds it, no status
\* and no notify; the mails are one verifyKey per stored user ID, in order,
\* each with the stored nonce
C9_FreshPut ==
  ~restrictUserOrigin =>
    \A block \in Blocks, emails \in EmailLists :
      LET keyId == KeyIdOf(block.fingerprint)
          o == put(store, nextNonce, now, restrictUserOrigin, emails, block)
          expected == SubmittedValid(block, emails)
          ds == WithKeyId(o.store, keyId)
          userIds == ds[1].userIds
      IN (o.status = 200 /\ VerifiedOf(keyId) = 0) =>
           /\ expected # <<>>
           /\ Len(ds) = 1
           /\ ds[1].publicKeyArmored = NullArmored
           /\ ds[1].fingerprint = block.fingerprint
           /\ Len(userIds) = Len(expected)
           /\ Len(o.mails) = Len(expected)
           /\ \A i \in 1..Len(userIds) :
                /\ userIds[i].name = expected[i].name
                /\ userIds[i].email = expected[i].email
                /\ userIds[i].verified = FALSE
                /\ userIds[i].nonce # NoNonce
                /\ userIds[i].nonce >= nextNonce
                /\ userIds[i].nonce < o.nextNonce
                /\ \A j \in 1..Len(userIds) :
                     userIds[j].nonce = userIds[i].nonce => j = i
                /\ userIds[i].publicKeyArmored # NullArmored
                /\ userIds[i].publicKeyArmored.fingerprint = block.fingerprint
                /\ expected[i] \in BodyUserIds(userIds[i].publicKeyArmored)
                /\ userIds[i].status = {}
                /\ userIds[i].notify = FALSE
                /\ o.mails[i] = Mail("verifyKey", keyId, expected[i], userIds[i].nonce)

\* C9 witness: restrictUserOrigin is off, an unverified document of key 1 is
\* stored, and a put of key 1 with both user IDs succeeds and mails both
C9_Witness ==
  /\ ~restrictUserOrigin
  /\ WithKeyId(store, KeyIdOf(F1)) # <<>>
  /\ VerifiedOf(KeyIdOf(F1)) = 0
  /\ LET o == put(store, nextNonce, now, restrictUserOrigin, <<>>, Block1)
     IN o.status = 200 /\ Len(o.mails) = 2

\* name, email and verified flag of a stored user ID
Identity(u) == [name |-> u.name, email |-> u.email, verified |-> u.verified]

\* the parts of the merged list of a put of block over the verified document v
VerifiedUsers(v) == SelectSeq(v.userIds, LAMBDA u : u.verified)
ValidUsers(v, block, emails) ==
  SelectSeq(SubmittedValid(block, emails), LAMBDA u :
    \A i \in 1..Len(v.userIds) :
      v.userIds[i].verified => v.userIds[i].email # u.email)
PendingUsers(v, block, emails) ==
  SelectSeq(v.userIds, LAMBDA u :
    /\ ~u.verified
    /\ \A i \in 1..Len(ValidUsers(v, block, emails)) :
         ValidUsers(v, block, emails)[i].email # u.email)

\* C10: a put that succeeds over a verified document stores, for the key id,
\* validUsers (the submitted valid user IDs whose email is not verified,
\* unverified), then pendingUsers (the existing unverified entries whose
\* email is not among validUsers), then verifiedUsers (the existing
\* verified entries, unchanged)
C10_MergeOrder ==
  \A block \in Blocks, emails \in EmailLists :
    LET keyId == KeyIdOf(block.fingerprint)
        o == put(store, nextNonce, now, restrictUserOrigin, emails, block)
        v == store[VerifiedOf(keyId)]
        valid == ValidUsers(v, block, emails)
        pending == PendingUsers(v, block, emails)
        verified == VerifiedUsers(v)
        ds == WithKeyId(o.store, keyId)
        userIds == ds[1].userIds
    IN (o.status = 200 /\ VerifiedOf(keyId) # 0) =>
         /\ Len(ds) = 1
         /\ Len(userIds) = Len(valid) + Len(pending) + Len(verified)
         /\ \A i \in 1..Len(valid) :
              Identity(userIds[i]) =
                [name |-> valid[i].name, email |-> valid[i].email, verified |-> FALSE]
         /\ \A i \in 1..Len(pending) :
              Identity(userIds[Len(valid) + i]) = Identity(pending[i])
         /\ \A i \in 1..Len(verified) :
              userIds[Len(valid) + Len(pending) + i] = verified[i]

\* C10 witness: over the stored verified document of key 1 one put adds a
\* new user ID in front of the verified one, and another keeps a pending one
C10_Witness ==
  /\ VerifiedOf(KeyIdOf(F1)) # 0
  /\ \E block \in Blocks, emails \in EmailLists :
       /\ KeyIdOf(block.fingerprint) = KeyIdOf(F1)
       /\ put(store, nextNonce, now, restrictUserOrigin, emails, block).status = 200
       /\ ValidUsers(store[VerifiedOf(KeyIdOf(F1))], block, emails) # <<>>
  /\ \E block \in Blocks, emails \in EmailLists :
       /\ KeyIdOf(block.fingerprint) = KeyIdOf(F1)
       /\ put(store, nextNonce, now, restrictUserOrigin, emails, block).status = 200
       /\ PendingUsers(store[VerifiedOf(KeyIdOf(F1))], block, emails) # <<>>

\* the stored unverified user IDs of the key id, holding a nonce, whose email
\* the upload submits as a valid user ID
Resubmitted(block, emails) ==
  {p \in Stored :
     /\ store[p[1]].keyId = KeyIdOf(block.fingerprint)
     /\ ~Uid(p).verified
     /\ Uid(p).nonce # NoNonce
     /\ \E i \in 1..Len(SubmittedValid(block, emails)) :
          SubmittedValid(block, emails)[i].email = Uid(p).email}

\* the verifyKey mails of an outcome that go to this email
VerifyMailsTo(o, email) ==
  {m \in Range(o.mails) : m.template = "verifyKey" /\ m.email = email}

\* C11: after a put that re-submits a valid user ID whose email
\* has an unverified stored entry with a nonce on that key, verify with the
\* old nonce fails with 404, a new nonce is mailed to the email, and verify
\* with every newly mailed nonce succeeds
C11_ResubmitAlwaysMailed ==
  \A block \in Blocks, emails \in EmailLists :
    LET keyId == KeyIdOf(block.fingerprint)
        o == put(store, nextNonce, now, restrictUserOrigin, emails, block)
    IN o.status = 200 =>
         \A p \in Resubmitted(block, emails) :
           /\ verify(o.store, o.nextNonce, keyId, Uid(p).nonce).status = 404
           /\ VerifyMailsTo(o, Uid(p).email) # {}
           /\ \A m \in VerifyMailsTo(o, Uid(p).email) :
                /\ m.nonce >= nextNonce
                /\ verify(o.store, o.nextNonce, keyId, m.nonce).status = 200

\* C11 witness: a put over the verified document of key 1 re-submits the
\* user ID of a stored unverified entry that holds a nonce
C11_Witness ==
  /\ VerifiedOf(KeyIdOf(F1)) # 0
  /\ put(store, nextNonce, now, restrictUserOrigin, <<>>, Block1).status = 200
  /\ Resubmitted(Block1, <<>>) # {}

\* the third-party certifications a key block holds, each with its user
Certifications(armored) ==
  UNION {{<<UserIdOf(armored.users[i]), armored.users[i].certs[j]>> :
            j \in 1..Len(armored.users[i].certs)} : i \in 1..Len(armored.users)}

\* C12: a put over a verified document stores a publicKeyArmored whose
\* third-party certifications were all in the publicKeyArmored stored before
C12_PutAddsNoCertification ==
  \A block \in Blocks, emails \in EmailLists :
    LET keyId == KeyIdOf(block.fingerprint)
        o == put(store, nextNonce, now, restrictUserOrigin, emails, block)
        before == store[VerifiedOf(keyId)].publicKeyArmored
    IN (o.status = 200 /\ VerifiedOf(keyId) # 0) =>
         \A d \in Range(WithKeyId(o.store, keyId)) :
           Certifications(d.publicKeyArmored) \subseteq Certifications(before)

\* C12 witness: an upload over the verified document of key 1 carries a
\* certification of a verified user ID that the stored block lacks
C12_Witness ==
  /\ VerifiedOf(KeyIdOf(F1)) # 0
  /\ \E block \in Blocks :
       /\ put(store, nextNonce, now, restrictUserOrigin, <<>>, block).status = 200
       /\ \E c \in Certifications(block) :
            /\ c \notin Certifications(store[VerifiedOf(KeyIdOf(F1))].publicKeyArmored)
            /\ \E i \in 1..Len(store[VerifiedOf(KeyIdOf(F1))].userIds) :
                 /\ store[VerifiedOf(KeyIdOf(F1))].userIds[i].verified
                 /\ store[VerifiedOf(KeyIdOf(F1))].userIds[i].email
                      = normalizeEmail(c[1].email)

\* the certifications an upload brings that the stored block of the verified
\* document v lacks, on the users both hold
NewCertifications(block, v) ==
  {[user |-> c[1], signature |-> c[2]] :
     c \in {c \in Certifications(block) :
              /\ block.fingerprint = v.publicKeyArmored.fingerprint
              /\ HasUser(v.publicKeyArmored, c[1])
              /\ c \notin Certifications(v.publicKeyArmored)}}

\* the checkNewSigs mails of an outcome
NewSigsMails(o) == SelectSeq(o.mails, LAMBDA m : m.template = "checkNewSigs")

BatchOf(keyId, nonce) ==
  FirstIndex(store, {d \in Range(store) :
                       d.keyId = keyId /\ d.pendingSignatures.nonce = nonce})

\* C14: verifySignatures with the nonce of a pending batch stores a block that
\* holds every pending certification whose md5 hash is selected and none of
\* those whose hash is not, and sets pendingSignatures to null
C14_SelectedSignaturesStored ==
  \A k \in KeyIds, n \in Nonces, sigs \in SigSets :
    LET c == verifySignatures(store, nextNonce, k, n, sigs)
        pending == store[BatchOf(k, n)].pendingSignatures.sigs
        d == WithKeyId(c.store, k)[1]
    IN BatchOf(k, n) # 0 =>
         /\ c.status = 200
         /\ d.pendingSignatures = NullPending
         /\ \A i \in 1..Len(pending) :
              Md5(pending[i].signature) \in sigs
                <=> <<pending[i].user, pending[i].signature>>
                      \in Certifications(d.publicKeyArmored)

\* C14 witness: a batch of two certifications is pending
C14_Witness ==
  \E k \in KeyIds, n \in Nonces :
    /\ BatchOf(k, n) # 0
    /\ Len(store[BatchOf(k, n)].pendingSignatures.sigs) = 2
    /\ verifySignatures(store, nextNonce, k, n, {Md5("s1"), Md5("s2")}).status = 200

\* the request was rejected with 404 and changed nothing
NotFound(o) ==
  /\ o.status = 404
  /\ o.store = store
  /\ o.nextNonce = nextNonce
  /\ o.mails = <<>>

\* some stored document of the key id has a user ID with this nonce
NonceStored(keyId, nonce) ==
  \E p \in Stored : store[p[1]].keyId = keyId /\ Uid(p).nonce = nonce

\* C15: verify and verifyRemove with a (keyId, nonce) that no stored user ID
\* of the key id holds, and verifySignatures with one that is the batch nonce
\* of no document of the key id, fail with 404, change no document and
\* send no mail
C15_UnknownNonceRejected ==
  \A k \in KeyIds, n \in Nonces :
    /\ ~NonceStored(k, n) =>
         /\ NotFound(verify(store, nextNonce, k, n))
         /\ NotFound(verifyRemove(store, nextNonce, k, n))
    /\ BatchOf(k, n) = 0 =>
         \A sigs \in SigSets : NotFound(verifySignatures(store, nextNonce, k, n, sigs))

\* C15 witness: a nonce stored on a user ID of one key is presented for
\* another key, while a batch is pending under yet another nonce
C15_Witness ==
  \E k \in KeyIds, other \in KeyIds, n \in Nonces, b \in Nonces :
    /\ other # k
    /\ NonceStored(k, n)
    /\ ~NonceStored(other, n)
    /\ BatchOf(k, b) # 0
    /\ BatchOf(k, n) = 0

\* C16: no certification pending on a document is equal to a third-party
\* certification that the publicKeyArmored of the document holds
C16_PendingNotInBody ==
  \A i \in 1..Len(store) :
    \A j \in 1..Len(store[i].pendingSignatures.sigs) :
      \A c \in Certifications(store[i].publicKeyArmored) :
        c[2] # store[i].pendingSignatures.sigs[j].signature

\* C16 witness: a document with a pending batch whose block holds a
\* certification too
C16_Witness ==
  \E i \in 1..Len(store) :
    /\ store[i].pendingSignatures.sigs # <<>>
    /\ Certifications(store[i].publicKeyArmored) # {}

Purgeable(d) ==
  /\ \A i \in 1..Len(d.userIds) : ~d.userIds[i].verified
  /\ now - d.uploaded > purgeTimeInDays

\* C18: every put, also one that is rejected, removes the purgeable
\* documents and no others: after a rejected put the store is the old one
\* without them, after an accepted put the documents of the other key ids
\* are the old ones without them
C18_PurgeExact ==
  \A block \in Blocks, emails \in EmailLists :
    LET keyId == KeyIdOf(block.fingerprint)
        o == put(store, nextNonce, now, restrictUserOrigin, emails, block)
    IN IF o.status = 200
       THEN SelectSeq(o.store, LAMBDA d : d.keyId # keyId)
              = SelectSeq(store, LAMBDA d : d.keyId # keyId /\ ~Purgeable(d))
       ELSE o.store = SelectSeq(store, LAMBDA d : ~Purgeable(d))

\* C18 witness: the store holds a purgeable document, an old document with a
\* verified user ID, and a rejected put removes the first and keeps the second
C18_Witness ==
  /\ \E i \in 1..Len(store) : Purgeable(store[i])
  /\ \E i \in 1..Len(store) :
       SomeVerified(store[i]) /\ now - store[i].uploaded > purgeTimeInDays
  /\ LET o == put(store, nextNonce, now, restrictUserOrigin, <<>>, Garbage)
     IN o.status # 200 /\ Len(o.store) = 1 /\ SomeVerified(o.store[1])

\* C19: when the storage remove of the lazy purge fails, put goes on: an
\* upload that is accepted without the failure is accepted with it.
C19_PurgeFailureSwallowed ==
  \A block \in Blocks, emails \in EmailLists :
    put(store, nextNonce, now, restrictUserOrigin, emails, block).status = 200
      => putPurgeFails(store, nextNonce).status = 200

\* an upload that would be stored, had the purge not failed
C19_Witness ==
  /\ store # << >>
  /\ put(store, nextNonce, now, restrictUserOrigin, << >>, Block2).status = 200
  /\ putPurgeFails(store, nextNonce).store = store

\* a user ID of out.store holds a nonce drawn by the operation that gave out
\* (the generator stood at nextNonce when it began) and no mail of out
\* carries that nonce
UndeliveredNonce(out) ==
  \E p \in Pairs(out.store) :
    LET n == UidIn(out.store, p).nonce
    IN /\ n # NoNonce
       /\ n >= nextNonce
       /\ \A i \in 1..Len(out.mails) : out.mails[i].nonce # n

PutKeepsNoUndeliveredNonce ==
  \A block \in Blocks, emails \in EmailLists :
    LET o == put(store, nextNonce, now, restrictUserOrigin, emails, block)
    IN \A k \in 1..Len(o.mails) :
         ~UndeliveredNonce(putMailFails(store, now, o, k))

VerifyKeepsNoUndeliveredNonce ==
  \A keyId \in KeyIds, nonce \in Nonces :
    LET o == verify(store, nextNonce, keyId, nonce)
    IN \A k \in 1..Len(o.mails) :
         ~UndeliveredNonce(verifyMailFails(store, o, k))

RequestRemoveKeepsNoUndeliveredNonce ==
  \A q \in RemoveQueries :
    LET o == requestRemove(store, nextNonce, q.keyId, q.email)
    IN \A k \in 1..Len(o.mails) :
         ~UndeliveredNonce(requestRemoveMailFails(o, k))

\* C20: when a mailer call fails during put, verify or requestRemove, the
\* store afterwards holds no user ID with a nonce that the operation drew and
\* no mail delivered.
C20_NoUndeliveredNonce ==
  /\ PutKeepsNoUndeliveredNonce
  /\ VerifyKeepsNoUndeliveredNonce
  /\ RequestRemoveKeepsNoUndeliveredNonce

\* a removal request whose first mail fails
C20_Witness ==
  \E q \in RemoveQueries :
    LET o == requestRemove(store, nextNonce, q.keyId, q.email)
    IN /\ o.status = 200
       /\ o.mails # << >>
       /\ UndeliveredNonce(requestRemoveMailFails(o, 1))

\* the user IDs of the store that the operation with outcome o has changed
Changed(o) ==
  {p \in Pairs(store) :
     \/ p \notin Pairs(o.store)
     \/ UidIn(o.store, p) # UidIn(store, p)}

\* requestRemove by email: one user ID with that email gets the fresh nonce
\* and one verifyRemove mail carries it
FlaggedByEmail(o, email) ==
  /\ o.status = 200
  /\ Len(o.store) = Len(store)
  /\ \E p \in Pairs(store) :
       /\ Changed(o) = {p}
       /\ UidIn(store, p).email = normalizeEmail(email)
       /\ UidIn(o.store, p) = [UidIn(store, p) EXCEPT !.nonce = nextNonce]
       /\ o.mails = << Mail("verifyRemove", store[p[1]].keyId,
                            UidIn(o.store, p), nextNonce) >>

\* requestRemove by key id: every user ID of the document of the key gets a
\* fresh nonce of its own, mailed to it, and nothing else changes
FlaggedByKeyId(o, keyId) ==
  LET i == FirstIndex(store, {d \in Range(store) : d.keyId = keyId})
      n == Len(store[i].userIds)
  IN /\ o.status = 200
     /\ Len(o.store) = Len(store)
     /\ Changed(o) = {<<i, j>> : j \in 1..n}
     /\ \A j \in 1..n :
          /\ o.store[i].userIds[j].nonce \in nextNonce..(o.nextNonce - 1)
          /\ o.store[i].userIds[j]
               = [store[i].userIds[j] EXCEPT !.nonce = o.store[i].userIds[j].nonce]
          /\ \A k \in 1..n : k # j =>
               o.store[i].userIds[k].nonce # o.store[i].userIds[j].nonce
     /\ Len(o.mails) = n
     /\ \A j \in 1..n :
          o.mails[j] = Mail("verifyRemove", keyId, o.store[i].userIds[j],
                            o.store[i].userIds[j].nonce)

RemoveByEmailFlagsOne ==
  \A email \in QueryEmails :
    LET o == requestRemove(store, nextNonce, NoKeyId, email)
    IN IF \E d \in Range(store) : HasEmail(d, normalizeEmail(email))
       THEN FlaggedByEmail(o, email)
       ELSE o.status = 404 /\ o.store = store /\ o.mails = << >>

RemoveByKeyIdFlagsAll ==
  \A keyId \in KeyIds :
    LET o == requestRemove(store, nextNonce, keyId, NoEmail)
    IN IF \E d \in Range(store) : d.keyId = keyId
       THEN FlaggedByKeyId(o, keyId)
       ELSE o.status = 404 /\ o.store = store /\ o.mails = << >>

\* C21: requestRemove with an email puts a fresh nonce on exactly one user ID
\* with that email and sends one verifyRemove mail; with a key id alone it
\* puts a fresh nonce of its own on every user ID of that document and sends
\* one mail per user ID; when no document matches it answers 404 and changes
\* nothing.
C21_RequestRemoveFlags ==
  /\ RemoveByEmailFlagsOne
  /\ RemoveByKeyIdFlagsAll

\* two documents hold the same email and a removal of the later one is asked
\* for by key id
C21_Witness ==
  \E i, j \in 1..Len(store) :
    /\ i < j
    /\ \E e \in {"a@org", "b@ext"} : HasEmail(store[i], e) /\ HasEmail(store[j], e)
    /\ requestRemove(store, nextNonce, store[j].keyId, NoEmail).status = 200

\* the key block without the one user that the user ID u stands for
WithoutUser(armored, u) ==
  [armored EXCEPT !.users =
     SelectSeq(@, LAMBDA x : ~(x.name = u.name /\ normalizeEmail(x.email) = u.email))]

\* what verifyRemove has to leave of the document d when the user ID at
\* position r goes
AfterRemoval(d, r) ==
  LET rm == d.userIds[r]
      verifiedLeft == \E j \in 1..Len(d.userIds) : j # r /\ d.userIds[j].verified
  IN [d EXCEPT !.userIds = Splice(@, r),
               !.publicKeyArmored =
                 IF ~rm.verified THEN @
                 ELSE IF verifiedLeft THEN WithoutUser(@, rm)
                 ELSE NullArmored]

\* C22: verifyRemove(keyId, nonce) deletes a document with one user ID; of a
\* document with more it removes exactly the user ID holding the nonce and
\* keeps the others: the armored body loses only that user ID when it was
\* verified and another verified one remains, and becomes null when it was
\* the last verified one; the removed user ID is returned.
C22_VerifyRemoveExact ==
  \A k \in KeyIds, n \in Nonces :
    LET i == FirstIndex(store, {d \in Range(store) : HasNonce(d, k, n)})
        d == store[i]
        r == FirstIndex(d.userIds, {u \in Range(d.userIds) : u.nonce = n})
        o == verifyRemove(store, nextNonce, k, n)
    IN i # 0 =>
         /\ o.status = 200
         /\ o.ret = Ret(d.userIds[r].name, d.userIds[r].email, NoDoc)
         /\ IF Len(d.userIds) = 1
            THEN o.store = Splice(store, i)
            ELSE o.store = [store EXCEPT ![i] = AfterRemoval(d, r)]

\* a removal is confirmed on a document with two verified user IDs
C22_Witness ==
  \E k \in KeyIds, n \in Nonces :
    LET i == FirstIndex(store, {d \in Range(store) : HasNonce(d, k, n)})
    IN /\ i # 0
       /\ \A j \in 1..Len(store[i].userIds) : store[i].userIds[j].verified
       /\ Len(store[i].userIds) = 2
       /\ verifyRemove(store, nextNonce, k, n).status = 200

\* email lists for the mismatch cases: an address named twice, two addresses
MismatchLists ==
  (EmailLists \ {<< >>}) \cup {<<"a@org", "A@org">>, <<"b@ext", "a@org">>}

\* the user IDs of the parsed key whose email is one of the listed ones
Listed(key, emails) ==
  {i \in 1..Len(key.userIds) :
     \E j \in 1..Len(emails) : key.userIds[i].email = normalizeEmail(emails[j])}

\* C23: a put with a non-empty emails list answers 400 whenever the number
\* of the key's user IDs whose email is listed differs from the length of
\* the list; then nothing but the purge has touched the store, no mail has
\* gone out and no nonce is drawn.
C23_EmailMismatchRejected ==
  \A block \in Blocks, emails \in MismatchLists :
    LET parsed == parseKey(block, restrictUserOrigin, now)
        o == put(store, nextNonce, now, restrictUserOrigin, emails, block)
    IN (parsed.status = 200 /\ Cardinality(Listed(parsed.key, emails)) # Len(emails))
         => /\ o.status = 400
            /\ o.mails = << >>
            /\ o.nextNonce = nextNonce
            /\ o.store = _purgeOldUnverified(store, now)

\* the key is stored, and an upload that names one of its addresses twice
\* is rejected after the purge has removed a document
C23_Witness ==
  /\ \E d \in Range(store) : d.keyId = KeyIdOf(F1)
  /\ _purgeOldUnverified(store, now) # store
  /\ put(store, nextNonce, now, restrictUserOrigin, <<"a@org", "A@org">>, Block1).status = 400

\* ways to exchange the nonces of a directory: all erased, all moved up by
\* one, all set to the same value, the issued ones in reverse
NonceMaps ==
  { [n \in 0..(MaxNonce + 1) |-> NoNonce],
    [n \in 0..(MaxNonce + 1) |-> IF n = NoNonce THEN NoNonce ELSE n + 1],
    [n \in 0..(MaxNonce + 1) |-> MaxNonce + 2],
    [n \in 0..(MaxNonce + 1) |-> IF n = NoNonce THEN MaxNonce + 2 ELSE MaxNonce + 2 - n] }

\* the directory with every stored nonce n exchanged for f[n]
WithNonces(docs, f) ==
  [i \in 1..Len(docs) |->
     [docs[i] EXCEPT
        !.userIds = [j \in 1..Len(@) |-> [@[j] EXCEPT !.nonce = f[@]]],
        !.pendingSignatures = IF @ = NullPending THEN @
                              ELSE [@ EXCEPT !.nonce = f[@]]]]

\* the result of get carries no nonce and no shadow block
NoSecretIn(ret) ==
  /\ \A j \in 1..Len(ret.key.userIds) :
       DOMAIN ret.key.userIds[j] = {"name", "email", "verified"}
  /\ ret.key.pendingSignatures.nonce = NoNonce

\* C24: the result of get holds no per-user-ID nonce, no shadow armored body
\* and no pendingSignatures.nonce, and two directories that differ only in
\* the values of the stored nonces give the same result for every query.
C24_GetHidesNonces ==
  \A q \in Queries :
    LET g == get(store, nextNonce, q)
    IN /\ NoSecretIn(g.ret)
       /\ \A f \in NonceMaps :
            LET h == get(WithNonces(store, f), nextNonce, q)
            IN h.status = g.status /\ h.ret = g.ret

\* get returns a document that holds a nonce on a user ID and a pending
\* batch with its nonce
C24_Witness ==
  \E q \in Queries, d \in Range(store) :
    /\ get(store, nextNonce, q).status = 200
    /\ get(store, nextNonce, q).ret.key = Public(d)
    /\ d.pendingSignatures.nonce # NoNonce
    /\ \E j \in 1..Len(d.userIds) :
         d.userIds[j].nonce # NoNonce /\ d.userIds[j].publicKeyArmored # NullArmored

\* how many entries the Map m holds in all
RECURSIVE EntriesIn(_)
EntriesIn(m) == IF m = <<>> THEN 0 ELSE Len(Head(m).sigs) + EntriesIn(Tail(m))

\* the Map m groups the pending certifications sigs by signed user ID: every
\* signed user ID has one group, and a group holds the digests of the
\* certifications made on its user ID, in their order
GroupedBySignedUser(m, sigs) ==
  /\ EntriesIn(m) = Len(sigs)
  /\ \A g, h \in 1..Len(m) : g # h => m[g].user # m[h].user
  /\ {m[g].user : g \in 1..Len(m)} = {sigs[i].user : i \in 1..Len(sigs)}
  /\ \A g \in 1..Len(m) :
       LET own == SelectSeq(sigs, LAMBDA x : x.user = m[g].user)
       IN /\ Len(m[g].sigs) = Len(own)
          /\ \A i \in 1..Len(own) : m[g].sigs[i].hash = Md5(own[i].signature)

\* C25: getPendingSignatures answers 404 when no verified document matches or
\* the document has no pending batch, 403 when the nonce is not the one of
\* the batch, and else returns one entry per pending certification, grouped
\* by signed user ID; it never changes the store.
C25_PendingSignaturesGuarded ==
  \A q \in Queries, n \in Nonces :
    LET v == getVerified(store, q)
        o == getPendingSignatures(store, nextNonce, q, n)
    IN /\ o.store = store /\ o.nextNonce = nextNonce /\ o.mails = << >>
       /\ IF v = 0 THEN o.status = 404
          ELSE IF store[v].pendingSignatures = NullPending THEN o.status = 404
          ELSE IF store[v].pendingSignatures.nonce # n THEN o.status = 403
          ELSE /\ o.status = 200
               /\ GroupedBySignedUser(o.ret, store[v].pendingSignatures.sigs)

\* a batch of two certifications is shown for its nonce and refused for
\* another one
C25_Witness ==
  \E q \in Queries, n, other \in Nonces :
    /\ getPendingSignatures(store, nextNonce, q, n).status = 200
    /\ EntriesIn(getPendingSignatures(store, nextNonce, q, n).ret) = 2
    /\ getPendingSignatures(store, nextNonce, q, other).status = 403

\* the document of the key id in docs (NoDoc when there is none)
DocOf(docs, keyId) ==
  LET i == FirstIndex(docs, {d \in Range(docs) : d.keyId = keyId})
  IN IF i = 0 THEN NoDoc ELSE docs[i]

\* C26: with restrictUserOrigin on, a put for a key without a verified
\* document sends verifyKey mails to organisation user IDs only; the stored
\* user IDs outside the organisation have no nonce and keep status and
\* notify, those of the organisation have a fresh nonce, mailed to them, and
\* neither status nor notify.
C26_OrganisationOnlyChallenged ==
  restrictUserOrigin =>
    \A block \in Blocks, emails \in EmailLists :
      LET keyId == KeyIdOf(block.fingerprint)
          o == put(store, nextNonce, now, restrictUserOrigin, emails, block)
          d == DocOf(o.store, keyId)
      IN (o.status = 200 /\ VerifiedOf(keyId) = 0) =>
           /\ \A i \in 1..Len(o.mails) :
                o.mails[i].template = "verifyKey" /\ isFromOrganisation(o.mails[i].email)
           /\ \A j \in 1..Len(d.userIds) :
                LET u == d.userIds[j]
                IN IF isFromOrganisation(u.email)
                   THEN /\ u.nonce \in nextNonce..(o.nextNonce - 1)
                        /\ u.status = {} /\ ~u.notify
                        /\ \E i \in 1..Len(o.mails) :
                             o.mails[i] = Mail("verifyKey", keyId, u, u.nonce)
                   ELSE /\ u.nonce = NoNonce
                        /\ u.status = {KEY_STATUS_VALID} /\ u.notify

\* such an upload is stored: a user ID of the organisation with its nonce
\* beside one from outside that kept notify
C26_Witness ==
  /\ restrictUserOrigin
  /\ \E d \in Range(store) :
       /\ ~SomeVerified(d)
       /\ \E j \in 1..Len(d.userIds) :
            isFromOrganisation(d.userIds[j].email) /\ d.userIds[j].nonce # NoNonce
       /\ \E j \in 1..Len(d.userIds) :
            ~isFromOrganisation(d.userIds[j].email) /\ d.userIds[j].notify

\* the userid strings of a key block
UsersOf(armored) == {UserIdOf(armored.users[i]) : i \in 1..Len(armored.users)}

\* merged is the merge of the blocks previous and shadow: it holds the users
\* of both, each once, each with its certifications from both
IsMergeOf(merged, previous, shadow) ==
  /\ merged.fingerprint = shadow.fingerprint
  /\ UsersOf(merged) = UsersOf(previous) \cup UsersOf(shadow)
  /\ Cardinality(UsersOf(merged)) = Len(merged.users)
  /\ \A x \in UsersOf(merged) :
       Range(CertsOf(merged, x))
         = Range(CertsOf(previous, x)) \cup Range(CertsOf(shadow, x))

\* C28: a successful verify(keyId, nonce) stores as publicKeyArmored the
\* merge of the previous body with the shadow body of its target (the shadow
\* body alone when there was no body), sets verified and clears nonce and
\* shadow body on the target only; with restrictUserOrigin off every other
\* user ID of the document stays as it was.
C28_VerifyFrame ==
  \A k \in KeyIds, n \in Nonces :
    LET o == verify(store, nextNonce, k, n)
        d == store[FirstIndex(store, {x \in Range(store) : HasNonce(x, k, n)})]
        t == FirstIndex(d.userIds, {u \in Range(d.userIds) : u.nonce = n})
        e == DocOf(o.store, k)
    IN o.status = 200 =>
         /\ e.fingerprint = d.fingerprint
         /\ d.publicKeyArmored # NullArmored
              => IsMergeOf(e.publicKeyArmored, d.publicKeyArmored,
                           d.userIds[t].publicKeyArmored)
         /\ d.publicKeyArmored = NullArmored
              => e.publicKeyArmored = d.userIds[t].publicKeyArmored
         /\ Len(e.userIds) = Len(d.userIds)
         /\ e.userIds[t] = [d.userIds[t] EXCEPT !.verified = TRUE, !.nonce = NoNonce,
                                                !.publicKeyArmored = NullArmored]
         /\ \A j \in 1..Len(d.userIds) : j # t =>
              /\ e.userIds[j].verified = d.userIds[j].verified
              /\ e.userIds[j].publicKeyArmored = d.userIds[j].publicKeyArmored
              /\ d.userIds[j].nonce # NoNonce => e.userIds[j].nonce # NoNonce
              /\ ~restrictUserOrigin => e.userIds[j] = d.userIds[j]

\* a verify succeeds on a document that has a body already and holds another
\* user ID still waiting with its nonce and shadow body
C28_Witness ==
  \E k \in KeyIds, n \in Nonces :
    LET d == DocOf(store, k)
    IN /\ verify(store, nextNonce, k, n).status = 200
       /\ d.publicKeyArmored # NullArmored
       /\ \E j \in 1..Len(d.userIds) :
            /\ d.userIds[j].nonce \notin {NoNonce, n}
            /\ d.userIds[j].publicKeyArmored # NullArmored

\* both concurrent requests have ended
Quiescent == requests # <<>> /\ \A p \in DOMAIN requests : requests[p].pc = "done"

Ops == [p \in DOMAIN requests |-> requests[p].op]

\* C27: when two puts for the same key id run concurrently, the store holds
\* at most one document of that key id once both have ended.
C27_ConcurrentPutsOneDocument ==
  (Quiescent /\ Ops = <<"put", "put">>) =>
    Cardinality({i \in 1..Len(store) : store[i].keyId = KeyIdOf(F1)}) <= 1

\* two uploads of key 1 have both been stored next to each other
C27_Witness ==
  /\ Quiescent /\ Ops = <<"put", "put">>
  /\ requests[1].status = 200 /\ requests[2].status = 200
  /\ Cardinality({i \in 1..Len(store) : store[i].keyId = KeyIdOf(F1)}) = 2

\* C29: when a verify for a@org on key 4 runs concurrently with a put over
\* key 1, whose stored document has a@org verified, at most one stored user
\* ID with that email is verified once both have ended.
C29_ConcurrentVerifyPutOneVerified ==
  (Quiescent /\ Ops = <<"verify", "put">>) =>
    Cardinality({p \in Pairs(store) :
                   UidIn(store, p).email = "a@org" /\ UidIn(store, p).verified}) <= 1

\* the verify and the put have both succeeded and a@org is verified on the
\* two keys
C29_Witness ==
  /\ Quiescent /\ Ops = <<"verify", "put">>
  /\ requests[1].status = 200 /\ requests[2].status = 200
  /\ \E i, j \in 1..Len(store) :
       /\ store[i].keyId = KeyIdOf(F1) /\ store[j].keyId = KeyIdOf(F2)
       /\ \E a \in 1..Len(store[i].userIds) :
            store[i].userIds[a].email = "a@org" /\ store[i].userIds[a].verified
       /\ \E b \in 1..Len(store[j].userIds) :
            store[j].userIds[b].email = "a@org" /\ store[j].userIds[b].verified

\* C30: when two verifies for the two user IDs of key 1 run concurrently,
\* both user IDs are stored as verified and the stored publicKeyArmored
\* holds both of them once both have ended.
C30_ConcurrentVerifiesBothStored ==
  (Quiescent /\ Ops = <<"verify", "verify">>) =>
    LET d == DocOf(store, KeyIdOf(F1))
    IN /\ Len(d.userIds) = 2
       /\ \A j \in 1..Len(d.userIds) :
            d.userIds[j].verified /\ HasUser(d.publicKeyArmored, UserIdOf(d.userIds[j]))

\* both verifies have answered 200 and one of the two user IDs is not in
\* the stored body
C30_Witness ==
  /\ Quiescent /\ Ops = <<"verify", "verify">>
  /\ requests[1].status = 200 /\ requests[2].status = 200
  /\ \E j \in 1..Len(DocOf(store, KeyIdOf(F1)).userIds) :
       ~HasUser(DocOf(store, KeyIdOf(F1)).publicKeyArmored,
                UserIdOf(DocOf(store, KeyIdOf(F1)).userIds[j]))

\* the document verify(keyId, nonce) locates in docs (NoDoc when there is none)
Located(docs, keyId, nonce) ==
  LET i == mongoGet(docs, {d \in Range(docs) : HasNonce(d, keyId, nonce)})
  IN IF i = 0 THEN NoDoc ELSE docs[i]

\* the positions of the user IDs of d that still carry notify
Dormant(d) == {j \in 1..Len(d.userIds) : d.userIds[j].notify}

\* verify(keyId, nonce) on a located record mails one verifyKey challenge,
\* each with a nonce of its own drawn by this verify, to exactly the user IDs
\* that carry notify, and the record it stores again holds those nonces and
\* neither status nor notify on any user ID
Redispatched(k, n) ==
  LET o == verify(store, nextNonce, k, n)
      d == Located(store, k, n)
      e == DocOf(o.store, k)
      fresh == nextNonce..(o.nextNonce - 1)
  IN d # NoDoc =>
       /\ Len(o.mails) = Cardinality(Dormant(d))
       /\ o.nextNonce = nextNonce + Cardinality(Dormant(d))
       /\ \A i \in 1..Len(o.mails) :
            /\ o.mails[i].template = "verifyKey"
            /\ o.mails[i].nonce \in fresh
            /\ \A h \in 1..Len(o.mails) : h # i => o.mails[h].nonce # o.mails[i].nonce
       /\ Len(e.userIds) = Len(d.userIds)
       /\ \A j \in 1..Len(e.userIds) :
            /\ e.userIds[j].status = {}
            /\ ~e.userIds[j].notify
            /\ j \in Dormant(d) =>
                 /\ e.userIds[j].nonce \in fresh
                 /\ \E i \in 1..Len(o.mails) :
                      o.mails[i] = Mail("verifyKey", k, d.userIds[j], e.userIds[j].nonce)
            /\ (j \notin Dormant(d) /\ o.status # 200) =>
                 e.userIds[j].nonce = d.userIds[j].nonce
       /\ o.status = 200 => \E j \in 1..Len(e.userIds) :
            /\ j \notin Dormant(d)
            /\ d.userIds[j].nonce = n
            /\ e.userIds[j].verified

\* the user IDs that carry notify are the ones outside the organisation of
\* keys uploaded with restrictUserOrigin on
DormantOutsideOrganisation ==
  \A p \in Stored :
    Uid(p).notify => restrictUserOrigin /\ ~isFromOrganisation(Uid(p).email)

\* a user ID that carries notify has no nonce yet
DormantHasNoNonce ==
  \A p \in Stored : Uid(p).notify => Uid(p).nonce = NoNonce

\* C31: before it marks its target verified, verify mails a challenge with a
\* fresh nonce to every user ID of the located record that carries notify
\* and stores the record again without status and notify; with
\* restrictUserOrigin off no stored user ID carries notify and verify sends
\* no mail; with it on the user IDs that carry notify are the ones outside
\* the organisation.
C31_VerifyRedispatch ==
  /\ DormantOutsideOrganisation
  /\ \A k \in KeyIds, n \in Nonces :
       /\ Redispatched(k, n)
       /\ ~restrictUserOrigin => verify(store, nextNonce, k, n).mails = <<>>

\* a verify succeeds on a record that holds a user ID with notify and no nonce
C31_Witness ==
  \E k \in KeyIds, n \in Nonces :
    /\ verify(store, nextNonce, k, n).status = 200
    /\ \E j \in Dormant(Located(store, k, n)) :
         Located(store, k, n).userIds[j].nonce = NoNonce

\* C31, as stated: the user IDs that verify challenges at that point receive
\* their first nonce there, that is, hold none before
C31_DormantReceiveFirstNonce ==
  \A k \in KeyIds, n \in Nonces :
    LET d == Located(store, k, n)
    IN \A j \in Dormant(d) : d.userIds[j].nonce = NoNonce

\* the documents of the key id in docs
DocsOf(docs, keyId) == SelectSeq(docs, LAMBDA d : d.keyId = keyId)

\* verifyRemove(k, n) locates a record and the user ID holding n is its only
\* verified one
RemovesLastVerified(k, n) ==
  LET d == Located(store, k, n)
      r == FirstIndex(d.userIds, {u \in Range(d.userIds) : u.nonce = n})
  IN /\ d # NoDoc
     /\ d.userIds[r].verified
     /\ \A j \in 1..Len(d.userIds) : j # r => ~d.userIds[j].verified

C33_CreateFailureLeavesNoRecord ==
  \A block \in Blocks, emails \in EmailLists :
    LET keyId == KeyIdOf(block.fingerprint)
        o == put(store, nextNonce, now, restrictUserOrigin, emails, block)
        f == putCreateFails(store, now, o, keyId)
        purged == _purgeOldUnverified(store, now)
    IN o.status = 200 =>
         /\ f.status = 500
         /\ DocsOf(f.store, keyId) = <<>>
         /\ f.store = SelectSeq(purged, LAMBDA d : d.keyId # keyId)
         /\ f.mails = o.mails

\* an upload would be accepted for a key id whose record, with a verified
\* user ID, is in the store
C33_Witness ==
  \E block \in Blocks, emails \in EmailLists :
    /\ put(store, nextNonce, now, restrictUserOrigin, emails, block).status = 200
    /\ VerifiedOf(KeyIdOf(block.fingerprint)) # 0

\* C34: an accepted put over a verified document that brings no new
\* certification stores the document without a pending batch, also when the
\* verified document had one; afterwards verifySignatures answers 404 for
\* every nonce on that key id, the nonce of the old batch included, and
\* getPendingSignatures answers 404 for the key
C34_PutDropsPendingBatch ==
  \A block \in Blocks, emails \in EmailLists :
    LET keyId == KeyIdOf(block.fingerprint)
        o == put(store, nextNonce, now, restrictUserOrigin, emails, block)
        v == store[VerifiedOf(keyId)]
        d == DocOf(o.store, keyId)
    IN (o.status = 200 /\ VerifiedOf(keyId) # 0 /\ NewCertifications(block, v) = {}) =>
         /\ d.pendingSignatures = NullPending
         /\ \A n \in 1..o.nextNonce :
              /\ \A sigs \in SigSets :
                   verifySignatures(o.store, o.nextNonce, keyId, n, sigs).status = 404
              /\ getPendingSignatures(o.store, o.nextNonce, ByKeyId(keyId), n).status = 404
              /\ getPendingSignatures(o.store, o.nextNonce,
                                      Query(d.fingerprint, NoKeyId, NoEmail), n).status = 404

\* the verified document of key 1 has a pending batch whose nonce
\* verifySignatures accepts, and an upload of the key without new
\* certifications is accepted
C34_Witness ==
  \E block \in Blocks, emails \in EmailLists :
    LET v == store[VerifiedOf(KeyIdOf(F1))]
    IN /\ VerifiedOf(KeyIdOf(F1)) # 0
       /\ block.fingerprint = F1
       /\ v.pendingSignatures # NullPending
       /\ verifySignatures(store, nextNonce, KeyIdOf(F1),
                           v.pendingSignatures.nonce, {}).status = 200
       /\ NewCertifications(block, v) = {}
       /\ put(store, nextNonce, now, restrictUserOrigin, emails, block).status = 200

\* C35: requestRemove by key id changes no document of another key id, and
\* afterwards every user ID of the document of the key id holds the nonce
\* that the verifyRemove mail sent for it carries, also when another
\* document holds a user ID with the same email
C35_RequestRemoveByKeyIdFrame ==
  \A keyId \in KeyIds :
    LET o == requestRemove(store, nextNonce, keyId, NoEmail)
        i == FirstIndex(store, {d \in Range(store) : d.keyId = keyId})
    IN o.status = 200 =>
         /\ Len(o.store) = Len(store)
         /\ \A h \in 1..Len(store) : store[h].keyId # keyId => o.store[h] = store[h]
         /\ Len(o.mails) = Len(store[i].userIds)
         /\ \A j \in 1..Len(store[i].userIds) :
              /\ o.mails[j].template = "verifyRemove"
              /\ o.mails[j].keyId = keyId
              /\ o.mails[j].email = store[i].userIds[j].email
              /\ o.store[i].userIds[j].nonce = o.mails[j].nonce

\* the removal of a key whose user IDs all differ in their email is asked
\* for by key id while a document stored before it holds one of those emails
C35_Witness ==
  \E h \in 1..Len(store), i \in 1..Len(store) :
    /\ h < i
    /\ store[h].keyId # store[i].keyId
    /\ \A j \in 1..Len(store[i].userIds), l \in 1..Len(store[i].userIds) :
         store[i].userIds[j].email = store[i].userIds[l].email => j = l
    /\ \E j \in 1..Len(store[i].userIds) : HasEmail(store[h], store[i].userIds[j].email)
    /\ requestRemove(store, nextNonce, store[i].keyId, NoEmail).status = 200

\* name and email of the user IDs parseKey reads from a key block
UploadedIdentities(block) ==
  {[name |-> block.users[i].name, email |-> normalizeEmail(block.users[i].email)] :
     i \in 1..Len(block.users)}

\* C36: an accepted put for a key id whose stored document has no verified
\* user ID leaves one document of the key id that holds user IDs of the
\* upload only, none verified, each without a nonce or with one drawn by
\* this put; every nonce issued before is answered with 404 by verify on
\* that key id afterwards
C36_PutReplacesUnverified ==
  \A block \in Blocks, emails \in EmailLists :
    LET keyId == KeyIdOf(block.fingerprint)
        o == put(store, nextNonce, now, restrictUserOrigin, emails, block)
        left == DocsOf(o.store, keyId)
    IN (o.status = 200 /\ DocsOf(store, keyId) # <<>> /\ VerifiedOf(keyId) = 0) =>
         /\ Len(left) = 1
         /\ left[1].fingerprint = block.fingerprint
         /\ left[1].publicKeyArmored = NullArmored
         /\ left[1].pendingSignatures = NullPending
         /\ \A j \in 1..Len(left[1].userIds) :
              LET u == left[1].userIds[j]
              IN /\ [name |-> u.name, email |-> u.email] \in UploadedIdentities(block)
                 /\ emails # <<>> =>
                      u.email \in {normalizeEmail(emails[i]) : i \in 1..Len(emails)}
                 /\ ~u.verified
                 /\ u.nonce \in {NoNonce} \cup nextNonce..(o.nextNonce - 1)
         /\ \A n \in 1..(nextNonce - 1) :
              /\ verify(o.store, o.nextNonce, keyId, n).status = 404
              /\ verify(o.store, o.nextNonce, keyId, n).store = o.store

\* an unverified document holds two user IDs with a nonce each that verify
\* accepts, and an upload of the key for one of the two emails is accepted
C36_Witness ==
  \E block \in Blocks, emails \in EmailLists :
    LET keyId == KeyIdOf(block.fingerprint)
        d == DocOf(store, keyId)
    IN /\ d # NoDoc
       /\ VerifiedOf(keyId) = 0
       /\ emails # <<>>
       /\ put(store, nextNonce, now, restrictUserOrigin, emails, block).status = 200
       /\ \E j \in 1..Len(d.userIds) :
            /\ d.userIds[j].email \notin {normalizeEmail(emails[i]) : i \in 1..Len(emails)}
            /\ d.userIds[j].nonce # NoNonce
            /\ verify(store, nextNonce, keyId, d.userIds[j].nonce).status = 200

\* the user ID of the key id in docs that holds the nonce (position 0: none)
HolderOf(docs, keyId, nonce) ==
  LET d == Located(docs, keyId, nonce)
  IN [doc |-> d,
      at |-> FirstIndex(d.userIds, {u \in Range(d.userIds) : u.nonce = nonce})]

\* a nonce that an accepted put mailed to a user ID for verification is
\* accepted by verifyRemove, which removes that user ID: it returns it, and
\* the record of the key id is gone or holds one user ID less, none with
\* that nonce
PutNonceRemoves ==
  \A block \in Blocks, emails \in EmailLists :
    LET keyId == KeyIdOf(block.fingerprint)
        o == put(store, nextNonce, now, restrictUserOrigin, emails, block)
    IN o.status = 200 =>
         \A i \in 1..Len(o.mails) :
           o.mails[i].template = "verifyKey" =>
             LET n == o.mails[i].nonce
                 h == HolderOf(o.store, keyId, n)
                 r == verifyRemove(o.store, o.nextNonce, keyId, n)
                 left == DocsOf(r.store, keyId)
             IN /\ h.at # 0
                /\ h.doc.userIds[h.at].name = o.mails[i].name
                /\ h.doc.userIds[h.at].email = o.mails[i].email
                /\ r.status = 200
                /\ r.ret = Ret(o.mails[i].name, o.mails[i].email, NoDoc)
                /\ IF Len(h.doc.userIds) = 1 THEN left = <<>>
                   ELSE /\ Len(left) = 1
                        /\ left[1].userIds = Splice(h.doc.userIds, h.at)

\* a nonce that requestRemove issued for an unverified user ID and mailed is
\* accepted by verify on the key id of the mail, which marks that user ID
\* verified
RemoveNonceVerifies(q) ==
  LET flagged == _flagForRemove(store, nextNonce, q.keyId, q.email)
      o == requestRemove(store, nextNonce, q.keyId, q.email)
  IN o.status = 200 =>
       \A i \in 1..Len(o.mails) :
         LET n == o.mails[i].nonce
             keyId == o.mails[i].keyId
             v == verify(o.store, o.nextNonce, keyId, n)
             e == DocOf(v.store, keyId)
         IN ~flagged.userIds[i].verified =>
              /\ v.status = 200
              /\ v.ret.email = o.mails[i].email
              /\ \E j \in 1..Len(e.userIds) :
                   /\ e.userIds[j].verified
                   /\ e.userIds[j].name = o.mails[i].name
                   /\ e.userIds[j].email = o.mails[i].email

\* C37: the store does not record what a nonce was issued for: the nonce put
\* mailed for the verification of a user ID is accepted by verifyRemove and
\* removes that user ID, and the nonce requestRemove issued for an
\* unverified user ID is accepted by verify and marks that user ID verified
C37_NoncesInterchangeable ==
  /\ PutNonceRemoves
  /\ \A q \in RemoveQueries : RemoveNonceVerifies(q)

\* the removal of an unverified user ID that still carries notify is asked
\* for by its email, and the nonce is stored on it
C37_Witness ==
  \E q \in RemoveQueries :
    LET o == requestRemove(store, nextNonce, q.keyId, q.email)
        h == HolderOf(o.store, o.mails[1].keyId, o.mails[1].nonce)
    IN /\ q.email # NoEmail
       /\ o.status = 200
       /\ h.at # 0
       /\ h.doc.userIds[h.at].email = normalizeEmail(q.email)
       /\ ~h.doc.userIds[h.at].verified
       /\ h.doc.userIds[h.at].notify

\* docs holds the user ID u verified on the record of the key id, and
\* get by its email answers with that record
HeldVerified(docs, nextN, keyId, u) ==
  LET g == get(docs, nextN, ByEmail(u.email))
  IN /\ \E d \in Range(docs) :
          /\ d.keyId = keyId
          /\ \E j \in 1..Len(d.userIds) :
               /\ d.userIds[j].verified
               /\ d.userIds[j].name = u.name
               /\ d.userIds[j].email = u.email
     /\ g.status = 200
     /\ g.ret.key.keyId = keyId
     /\ \E j \in 1..Len(g.ret.key.userIds) :
          g.ret.key.userIds[j] = [name |-> u.name, email |-> u.email, verified |-> TRUE]

\* the step is a verifyRemove confirmed with the nonce of the user ID p
ConfirmedRemovalOf(p) ==
  \E n \in Nonces :
    LET o == verifyRemove(store, nextNonce, store[p[1]].keyId, n)
        h == HolderOf(store, store[p[1]].keyId, n)
    IN /\ o.status = 200
       /\ h.doc = store[p[1]]
       /\ h.at = p[2]
       /\ store' = o.store

\* the step is a verify that succeeds on another key for an email that a
\* user ID of the record of p has
VerifiedElsewhere(p) ==
  \E k \in KeyIds, n \in Nonces :
    LET o == verify(store, nextNonce, k, n)
    IN /\ k # store[p[1]].keyId
       /\ o.status = 200
       /\ HasEmail(store[p[1]], o.ret.email)
       /\ store' = o.store

\* the step is a put or a verify on the key of p whose storage create failed
\* after the record was removed
LostByFailedCreate(p) ==
  \/ \E block \in Blocks, emails \in EmailLists :
       LET o == put(store, nextNonce, now, restrictUserOrigin, emails, block)
       IN /\ o.status = 200
          /\ KeyIdOf(block.fingerprint) = store[p[1]].keyId
          /\ store' = putCreateFails(store, now, o, store[p[1]].keyId).store
  \/ \E n \in Nonces :
       LET o == verify(store, nextNonce, store[p[1]].keyId, n)
       IN /\ o.status # 404
          /\ store' = verifyCreateFails(store, o, store[p[1]].keyId).store

====
